---- MODULE Spec2Model ----
(***************************************************************************)
(* Smart shuffle memory (utils/smartShuffle.ts) and the background queue   *)
(* delivery (services/queueBackgroundService.ts) of flux-shuffle.          *)
(*                                                                         *)
(* Every async function is cut at its awaits: one action is the            *)
(* synchronous code from one resumption up to the next await.  AsyncStorage*)
(* serves its requests in the order they are issued, so a read or write    *)
(* takes effect in the action that issues it.                              *)
(***************************************************************************)
EXTENDS Integers, Sequences, FiniteSets, TLC

\* ------------------------------------------------------------------------
\* Bounds of the model
\* ------------------------------------------------------------------------

\* concurrent callers (async invocations that can be in flight together)
NumProcs == 3

\* sequences of at most this length are shuffled into every permutation
FullShuffleLen == 3

\* size of the one large playlist (one more than the "queue everything" limit)
BigN == 151

\* cycle numbers are capped in the guards that increment them
MaxCycle == 2

\* nesting of the recursive rollover call is capped in its guard
MaxDepth == 2

\* size of the playlist that is long enough for a device probe (index 25 of
\* the queued tracks exists)
LongN == 28

\* taps on a playlist in one run
MaxTaps == 2

\* tracks (or device probes) that get a failing answer in one run
MaxFaults == 2

\* users' taps that can be in flight together
NumUsers == 2

Procs == 1 .. NumProcs

Users == 1 .. NumUsers

Playlists == {"P"}

\* ------------------------------------------------------------------------
\* Sequence helpers (Array.prototype.filter / map / includes)
\* ------------------------------------------------------------------------

Range(s) == {s[i] : i \in 1 .. Len(s)}

RECURSIVE FilterRange(_, _, _, _)
\* the elements of s[i .. j] that are in keep, in order (the range is split
\* in halves to keep the evaluation shallow)
FilterRange(s, keep, i, j) ==
    IF i > j THEN <<>>
    ELSE IF i = j THEN (IF s[i] \in keep THEN <<s[i]>> ELSE <<>>)
    ELSE FilterRange(s, keep, i, (i + j) \div 2)
            \o FilterRange(s, keep, ((i + j) \div 2) + 1, j)

\* s.filter(x => keep.has(x))
Filter(s, keep) == FilterRange(s, keep, 1, Len(s))

\* s.filter(x => !drop.has(x))
FilterOut(s, drop) == FilterRange(s, Range(s) \ drop, 1, Len(s))

Distinct(s) == \A i, j \in 1 .. Len(s) : i # j => s[i] # s[j]

\* ------------------------------------------------------------------------
\* Tracks.  A track is its id (a number); the id string of the catalog is
\* the decimal numeral of the number.
\* ------------------------------------------------------------------------

RECURSIVE idChars(_)
\* the UTF-16 code units of a track id ('0' is 48)
idChars(id) ==
    IF id < 10 THEN <<48 + id>>
    ELSE idChars(id \div 10) \o <<48 + (id % 10)>>

RECURSIVE joinRange(_, _, _)
joinRange(tracks, i, j) ==
    IF i = j THEN idChars(tracks[i])
    ELSE joinRange(tracks, i, (i + j) \div 2)
            \o <<10>> \o joinRange(tracks, ((i + j) \div 2) + 1, j)

\* tracks.map(t => t.id).join('\n'), as code units ('\n' is 10)
joinIds(tracks) == IF tracks = <<>> THEN <<>> ELSE joinRange(tracks, 1, Len(tracks))

\* ------------------------------------------------------------------------
\* FNV-1a, 32 bit.  A 32-bit word is the pair <<high 16 bits, low 16 bits>>.
\* ------------------------------------------------------------------------

RECURSIVE XorBits(_, _, _)
\* bitwise exclusive or of the low n bits of a and b
XorBits(a, b, n) ==
    IF n = 0 THEN 0
    ELSE ((a + b) % 2) + 2 * XorBits(a \div 2, b \div 2, n - 1)

\* 0x811c9dc5
FnvOffsetBasis == <<33052, 40389>>

\* low 24 bits of the FNV prime 0x01000193
FnvPrimeLow == 403

\* hash ^= c; hash = Math.imul(hash, 0x01000193)
\* (h * 2^24 + h * 0x193) mod 2^32, computed on the halves
FnvStep(h, c) ==
    LET lo   == XorBits(h[2], c, 16)
        prod == lo * FnvPrimeLow
    IN  << (h[1] * FnvPrimeLow + (prod \div 65536) + (lo % 256) * 256) % 65536,
           prod % 65536 >>

RECURSIVE FnvFold(_, _, _, _)
\* the loop over str[i .. j], split in halves (the left half is
\* evaluated before the right one starts) to keep the evaluation shallow
FnvFold(h, str, i, j) ==
    IF i > j THEN h
    ELSE IF i = j THEN FnvStep(h, str[i])
    ELSE LET m    == (i + j) \div 2
             left == FnvFold(h, str, i, m)
         IN  IF left[1] >= 0 THEN FnvFold(left, str, m + 1, j) ELSE left

RECURSIVE Base36(_)
\* (hash >>> 0).toString(36): the base-36 digits, most significant first
Base36(h) ==
    LET qhi == h[1] \div 36
        t   == (h[1] % 36) * 65536 + h[2]
        q   == <<qhi, t \div 36>>
    IN  IF q = <<0, 0>> THEN <<t % 36>> ELSE Base36(q) \o <<t % 36>>

fnv1aHash(str) == Base36(FnvFold(FnvOffsetBasis, str, 1, Len(str)))

\* the string "{count}_{hash}" as the pair <<count, digits of hash>>;
\* the empty list gives "0_0"
generatePlaylistHash(tracks) ==
    IF Len(tracks) = 0 THEN <<0, <<0>>>>
    ELSE <<Len(tracks), fnv1aHash(joinIds(tracks))>>

\* ------------------------------------------------------------------------
\* Set size
\* ------------------------------------------------------------------------

SmallPlaylistMax  == 150
MediumPlaylistMax == 500
LargePlaylistMax  == 1500
HugeSetCap        == 400

Min(a, b) == IF a < b THEN a ELSE b

\* calculateOptimalSetSize with the third range reaching one track further
calculateOptimalSetSizeWide(totalTracks) ==
    IF totalTracks <= SmallPlaylistMax THEN totalTracks
    ELSE IF totalTracks <= MediumPlaylistMax THEN totalTracks \div 2
    ELSE IF totalTracks <= LargePlaylistMax + 1 THEN totalTracks \div 3
    ELSE Min(HugeSetCap, totalTracks \div 4)

calculateOptimalSetSize(totalTracks) ==
    IF totalTracks <= SmallPlaylistMax THEN totalTracks
    ELSE IF totalTracks <= MediumPlaylistMax THEN totalTracks \div 2
    ELSE IF totalTracks <= LargePlaylistMax THEN totalTracks \div 3
    ELSE Min(HugeSetCap, totalTracks \div 4)

\* ------------------------------------------------------------------------
\* Shuffle memory
\* ------------------------------------------------------------------------

\* loadShuffleMemory returns null when the key is not stored
NoMem == [exists |-> FALSE]

\* createFreshMemory with the played list started from the tracks themselves
createFreshMemoryAllPlayed(tracks, cycleNumber) ==
    [ exists         |-> TRUE,
      playlistHash   |-> generatePlaylistHash(tracks),
      playedTrackIds |-> tracks,
      cycleNumber    |-> cycleNumber,
      totalTracks    |-> Len(tracks) ]

createFreshMemory(tracks, cycleNumber) ==
    [ exists         |-> TRUE,
      playlistHash   |-> generatePlaylistHash(tracks),
      playedTrackIds |-> <<>>,
      cycleNumber    |-> cycleNumber,
      totalTracks    |-> Len(tracks) ]

\* memory.playedTrackIds.filter(id => currentTrackIds.has(id))
pruneOrphans(playedTrackIds, allTracks) == Filter(playedTrackIds, Range(allTracks))

\* the filter of unplayedTracks left out: every track counts as unplayed
unplayedTracksUnfiltered(allTracks, playedTrackIds) == allTracks

\* allTracks.filter(track => !playedSet.has(track.id))
unplayedTracks(allTracks, playedTrackIds) == FilterOut(allTracks, Range(playedTrackIds))

\* memory.playedTrackIds.push(...trackIds.filter(id => !existingIds.has(id)))
addPlayed(playedTrackIds, trackIds) ==
    playedTrackIds \o FilterOut(trackIds, Range(playedTrackIds))

\* memory.playedTrackIds.filter(id => !idsToRemove.has(id))
removePlayed(playedTrackIds, trackIds) == FilterOut(playedTrackIds, Range(trackIds))

\* Math.round((played / total) * 100)
Percentage(played, total) == (200 * played + total) \div (2 * total)

ShuffleStats(memory, allTracks) ==
    [ played        |-> Len(memory.playedTrackIds),
      remaining     |-> Len(allTracks) - Len(memory.playedTrackIds),
      cycleComplete |-> FALSE,
      cycleNumber   |-> memory.cycleNumber,
      percentage    |-> Percentage(Len(memory.playedTrackIds), Len(allTracks)) ]

EmptyStats ==
    [ played |-> 0, remaining |-> 0, cycleComplete |-> FALSE,
      cycleNumber |-> 0, percentage |-> 0 ]

\* ------------------------------------------------------------------------
\* Random shuffle primitive (Fisher-Yates over a secure random source):
\* any permutation can come out.  Long inputs are given a few of them.
\* ------------------------------------------------------------------------

Permutes(n) == {f \in [1 .. n -> 1 .. n] : \A i, j \in 1 .. n : i # j => f[i] # f[j]}

Reverse(s) == [i \in 1 .. Len(s) |-> s[Len(s) + 1 - i]]

Rotate(s, k) == [i \in 1 .. Len(s) |-> s[((i + k - 1) % Len(s)) + 1]]

trueRandomShuffle(s) ==
    IF Len(s) <= FullShuffleLen
    THEN {[i \in 1 .. Len(s) |-> s[f[i]]] : f \in Permutes(Len(s))}
    ELSE {s, Reverse(s), Rotate(s, Len(s) \div 2), Rotate(s, 1), Reverse(Rotate(s, 2))}

\* ------------------------------------------------------------------------
\* State
\* ------------------------------------------------------------------------

VARIABLES
    catalog,        \* the external catalog: playlist id -> its current track list
    mem,            \* AsyncStorage, keys smart_shuffle_<playlistId>
    shuffleLocks,   \* the lock map: playlist id -> the caller whose promise is stored (0: no entry)
    pc,             \* where each caller is suspended
    loc,            \* the local variables of each caller's invocation
    seen,           \* history: ids returned since the playlist was last covered completely
    committed       \* history: ids of commits that returned true and that nothing removed since

VARIABLES
    qstate,         \* AsyncStorage, key queue_task_state
    qloc,           \* the local variables of each caller's delivery
    deviceQueue,    \* the playback queue of the device: the uris enqueued so far
    notification,   \* the notification that is shown
    faults,         \* how many tracks or probes were answered with a failure
    calls,          \* how many calls were made (bounds the concurrent runs)
    now,            \* Date.now(), in minutes
    recent          \* AsyncStorage, key recent_playlists: the stored list of playlist ids

engineVars == <<catalog, mem, shuffleLocks, pc, loc, seen, committed>>

qVars == <<qstate, qloc, deviceQueue, notification, faults>>

vars == <<catalog, mem, shuffleLocks, pc, loc, seen, committed,
          qstate, qloc, deviceQueue, notification, faults, calls, now, recent>>

NoResult == [none |-> TRUE]

\* the played set of a stored memory
PlayedIds(m) == IF m.exists THEN Range(m.playedTrackIds) ELSE {}

InitLoc ==
    [ op         |-> "none",     \* the public function this caller is in (or last was in)
      playlistId |-> "P",
      allTracks  |-> <<>>,
      trackIds   |-> <<>>,
      memory     |-> NoMem,      \* the local `memory`
      depth      |-> 0,          \* frames of getSmartShuffledTracks below the current one
      waitOn     |-> 0,          \* whose lock promise is awaited
      cont       |-> "idle",     \* where the caller of commit / rollback goes on
      result     |-> NoResult,
      rolled     |-> FALSE,      \* history: this call started a new cycle
      pre        |-> NoMem,      \* history: the stored memory when the call was made
      before     |-> NoResult ]  \* history of a rollback that follows the commit of the same
                                 \* ids: the played set before that commit

\* the ids of a track list
TrackIds(tracks) == Range(tracks)

BigList == [i \in 1 .. BigN |-> i]

\* ------------------------------------------------------------------------
\* getSmartShuffledTracks  (smartShuffle.ts 297-432)
\* ------------------------------------------------------------------------

\* the history of returned ids after one more batch
SeenAfter(old, tracks, batch) ==
    IF old = TrackIds(tracks) THEN Range(batch) ELSE old \cup Range(batch)

\* A frame with d frames below it returns res.  The outermost frame (d = 0)
\* owns the lock: its finally block resolves the promise, which resumes every
\* caller awaiting it, and deletes the map entry.
Return(p, res, d) ==
    LET pid == loc[p].playlistId IN
    IF d = 0
    THEN /\ shuffleLocks' = [shuffleLocks EXCEPT ![pid] = 0]
         /\ pc' = [q \in Procs |->
                     IF q = p THEN loc[p].cont
                     ELSE IF pc[q] = "awaitLock" /\ loc[q].waitOn = p THEN "resume"
                     ELSE pc[q]]
         /\ loc' = [loc EXCEPT ![p].result = res, ![p].memory = NoMem, ![p].depth = 0]
         /\ seen' = [seen EXCEPT ![pid] = SeenAfter(@, loc[p].allTracks, res.tracks)]
    ELSE /\ pc' = [pc EXCEPT ![p] = "recursed"]
         /\ loc' = [loc EXCEPT ![p].result = res, ![p].depth = d - 1]
         /\ UNCHANGED <<shuffleLocks, seen>>

\* Step4 returning every unplayed track, whatever the set size
Step4Unsized(p, m) ==
    LET pid      == loc[p].playlistId
        tracks   == loc[p].allTracks
        unplayed == unplayedTracks(tracks, m.playedTrackIds)
    IN  IF Len(unplayed) = 0
        THEN LET fresh == createFreshMemory(tracks, m.cycleNumber + 1) IN
             /\ m.cycleNumber < MaxCycle
             /\ loc[p].depth < MaxDepth
             /\ mem' = [mem EXCEPT ![pid] = fresh]
             /\ loc' = [loc EXCEPT ![p].memory = fresh, ![p].rolled = TRUE]
             /\ pc' = [pc EXCEPT ![p] = "savedRollover"]
             /\ committed' = [committed EXCEPT ![pid] = {}]
             /\ UNCHANGED <<shuffleLocks, seen>>
        ELSE /\ \E shuffled \in trueRandomShuffle(unplayed) :
                    Return(p, [ tracks |-> shuffled,
                                stats  |-> ShuffleStats(m, tracks) ],
                           loc[p].depth)
             /\ UNCHANGED <<mem, committed>>

\* steps 4 to 8 (374-422): filter, rollover or select
Step4(p, m) ==
    LET pid      == loc[p].playlistId
        tracks   == loc[p].allTracks
        unplayed == unplayedTracks(tracks, m.playedTrackIds)
    IN  IF Len(unplayed) = 0
        THEN LET fresh == createFreshMemory(tracks, m.cycleNumber + 1) IN
             /\ m.cycleNumber < MaxCycle
             /\ loc[p].depth < MaxDepth
             /\ mem' = [mem EXCEPT ![pid] = fresh]
             /\ loc' = [loc EXCEPT ![p].memory = fresh, ![p].rolled = TRUE]
             /\ pc' = [pc EXCEPT ![p] = "savedRollover"]
             /\ committed' = [committed EXCEPT ![pid] = {}]
             /\ UNCHANGED <<shuffleLocks, seen>>
        ELSE LET setSize        == calculateOptimalSetSize(Len(tracks))
                 tracksToReturn == Min(setSize, Len(unplayed))
             IN  /\ \E shuffled \in trueRandomShuffle(unplayed) :
                        Return(p, [ tracks |-> SubSeq(shuffled, 1, tracksToReturn),
                                    stats  |-> ShuffleStats(m, tracks) ],
                               loc[p].depth)
                 /\ UNCHANGED <<mem, committed>>

\* Step3 with the orphans left in the played list
Step3KeepOrphans(p, m) == Step4(p, m)

\* step 3 (362-372): orphan clean-up
Step3(p, m) ==
    LET pid    == loc[p].playlistId
        pruned == pruneOrphans(m.playedTrackIds, loc[p].allTracks)
    IN  IF Len(pruned) < Len(m.playedTrackIds)
        THEN LET m2 == [m EXCEPT !.playedTrackIds = pruned] IN
             /\ mem' = [mem EXCEPT ![pid] = m2]
             /\ loc' = [loc EXCEPT ![p].memory = m2]
             /\ pc' = [pc EXCEPT ![p] = "savedPruned"]
             /\ committed' = [committed EXCEPT ![pid] = @ \cap Range(pruned)]
             /\ UNCHANGED <<shuffleLocks, seen>>
        ELSE Step4(p, m)

\* Step2 with the new record starting again at cycle 0
Step2FromZero(p, m) ==
    LET pid == loc[p].playlistId
        currentHash == generatePlaylistHash(loc[p].allTracks)
    IN  IF m.playlistHash # currentHash
        THEN LET m2 == createFreshMemory(loc[p].allTracks, 0) IN
             /\ mem' = [mem EXCEPT ![pid] = m2]
             /\ loc' = [loc EXCEPT ![p].memory = m2]
             /\ pc' = [pc EXCEPT ![p] = "savedChanged"]
             /\ committed' = [committed EXCEPT ![pid] = {}]
             /\ UNCHANGED <<shuffleLocks, seen>>
        ELSE Step3(p, m)

\* step 2 (350-360): playlist change detection
Step2(p, m) ==
    LET pid == loc[p].playlistId
        currentHash == generatePlaylistHash(loc[p].allTracks)
    IN  IF m.playlistHash # currentHash
        THEN LET m2 == createFreshMemory(loc[p].allTracks, m.cycleNumber) IN
             /\ mem' = [mem EXCEPT ![pid] = m2]
             /\ loc' = [loc EXCEPT ![p].memory = m2]
             /\ pc' = [pc EXCEPT ![p] = "savedChanged"]
             /\ committed' = [committed EXCEPT ![pid] = {}]
             /\ UNCHANGED <<shuffleLocks, seen>>
        ELSE Step3(p, m)

\* 328-340: store this call's promise in the map (unless recursive) and load
Enter(p, l) ==
    /\ shuffleLocks' = [shuffleLocks EXCEPT ![l.playlistId] = p]
    /\ loc' = [loc EXCEPT ![p] = [l EXCEPT !.memory = mem[l.playlistId]]]
    /\ pc' = [pc EXCEPT ![p] = "loaded"]
    /\ UNCHANGED <<mem, seen, committed>>

\* the call itself, up to its first await (303-340); the caller is at
\* `from` and goes on at `cont` with the result
getSmartShuffledTracks(p, pid, from, cont) ==
    /\ pc[p] = from
    /\ LET tracks == catalog[pid]
           l0 == [InitLoc EXCEPT !.op = "shuffle", !.playlistId = pid,
                                 !.allTracks = tracks, !.pre = mem[pid],
                                 !.cont = cont]
       IN  IF Len(tracks) = 0
           THEN /\ loc' = [loc EXCEPT ![p] =
                             [l0 EXCEPT !.result = [tracks |-> <<>>, stats |-> EmptyStats]]]
                /\ pc' = [pc EXCEPT ![p] = cont]
                /\ UNCHANGED <<mem, shuffleLocks, seen, committed>>
           ELSE IF shuffleLocks[pid] # 0
           THEN /\ loc' = [loc EXCEPT ![p] = [l0 EXCEPT !.waitOn = shuffleLocks[pid]]]
                /\ pc' = [pc EXCEPT ![p] = "awaitLock"]
                /\ UNCHANGED <<mem, shuffleLocks, seen, committed>>
           ELSE Enter(p, l0)
    /\ UNCHANGED catalog

\* the awaited lock promise was resolved (325 -> 328)
ShuffleResume(p) ==
    /\ pc[p] = "resume"
    /\ Enter(p, loc[p])
    /\ UNCHANGED <<catalog, qVars, calls, now, recent>>

\* ShuffleLoaded keeping the fresh memory in the local variable only
ShuffleLoadedUnsaved(p) ==
    /\ pc[p] = "loaded"
    /\ IF ~loc[p].memory.exists
       THEN LET fresh == createFreshMemory(loc[p].allTracks, 0) IN
            /\ loc' = [loc EXCEPT ![p].memory = fresh]
            /\ pc' = [pc EXCEPT ![p] = "savedFresh"]
            /\ UNCHANGED <<mem, shuffleLocks, seen, committed>>
       ELSE Step2(p, loc[p].memory)
    /\ UNCHANGED <<catalog, qVars, calls, now, recent>>

\* loadShuffleMemory answered (340-348)
ShuffleLoaded(p) ==
    /\ pc[p] = "loaded"
    /\ IF ~loc[p].memory.exists
       THEN LET fresh == createFreshMemory(loc[p].allTracks, 0) IN
            /\ mem' = [mem EXCEPT ![loc[p].playlistId] = fresh]
            /\ loc' = [loc EXCEPT ![p].memory = fresh]
            /\ pc' = [pc EXCEPT ![p] = "savedFresh"]
            /\ UNCHANGED <<shuffleLocks, seen, committed>>
       ELSE Step2(p, loc[p].memory)
    /\ UNCHANGED <<catalog, qVars, calls, now, recent>>

\* the save of the fresh record answered (347 -> 350)
ShuffleSavedFresh(p) ==
    /\ pc[p] = "savedFresh"
    /\ Step2(p, loc[p].memory)
    /\ UNCHANGED <<catalog, qVars, calls, now, recent>>

\* the save after change detection answered (359 -> 362)
ShuffleSavedChanged(p) ==
    /\ pc[p] = "savedChanged"
    /\ Step3(p, loc[p].memory)
    /\ UNCHANGED <<catalog, qVars, calls, now, recent>>

\* the save after orphan clean-up answered (371 -> 374)
ShuffleSavedPruned(p) ==
    /\ pc[p] = "savedPruned"
    /\ Step4(p, loc[p].memory)
    /\ UNCHANGED <<catalog, qVars, calls, now, recent>>

\* ShuffleSavedRollover with a recursive call that awaits the promise in
\* the lock map like an external call
ShuffleSavedRolloverLocked(p) ==
    /\ pc[p] = "savedRollover"
    /\ IF shuffleLocks[loc[p].playlistId] # 0
       THEN /\ loc' = [loc EXCEPT ![p].waitOn = shuffleLocks[loc[p].playlistId]]
            /\ pc' = [pc EXCEPT ![p] = "awaitLock"]
       ELSE /\ loc' = [loc EXCEPT ![p].memory = mem[loc[p].playlistId], ![p].depth = @ + 1]
            /\ pc' = [pc EXCEPT ![p] = "loaded"]
    /\ UNCHANGED <<catalog, mem, shuffleLocks, seen, committed, qVars, calls, now, recent>>

\* the save of the new cycle answered: the recursive call with _skipLock
\* runs up to its load (388 -> 392 -> 340)
ShuffleSavedRollover(p) ==
    /\ pc[p] = "savedRollover"
    /\ loc' = [loc EXCEPT ![p].memory = mem[loc[p].playlistId], ![p].depth = @ + 1]
    /\ pc' = [pc EXCEPT ![p] = "loaded"]
    /\ UNCHANGED <<catalog, mem, shuffleLocks, seen, committed, qVars, calls, now, recent>>

\* ShuffleRecursed passing the recursive result on as it is, its
\* cycleComplete flag not set
ShuffleRecursedPlain(p) ==
    /\ pc[p] = "recursed"
    /\ Return(p, loc[p].result, loc[p].depth)
    /\ UNCHANGED <<catalog, mem, committed, qVars, calls, now, recent>>

\* the recursive call answered (392 -> 397 and the finally block)
ShuffleRecursed(p) ==
    /\ pc[p] = "recursed"
    /\ Return(p, [loc[p].result EXCEPT !.stats.cycleComplete = TRUE], loc[p].depth)
    /\ UNCHANGED <<catalog, mem, committed, qVars, calls, now, recent>>

\* ------------------------------------------------------------------------
\* markTracksAsPlayed (527-558) and rollbackUnqueuedTracks (568-600)
\* ------------------------------------------------------------------------

\* commit or rollback returns ok to its caller
ReturnBool(p, ok) ==
    LET pid == loc[p].playlistId IN
    /\ pc' = [pc EXCEPT ![p] = loc[p].cont]
    /\ loc' = [loc EXCEPT ![p].result = [ok |-> ok], ![p].memory = NoMem]
    /\ committed' = [committed EXCEPT ![pid] =
                       IF loc[p].op = "mark" /\ ok THEN @ \cup Range(loc[p].trackIds)
                       ELSE IF loc[p].op = "rollback" THEN @ \ Range(loc[p].trackIds)
                       ELSE @]

\* the call, up to the await of loadShuffleMemory (533)
markTracksAsPlayed(p, pid, trackIds, from, cont) ==
    /\ pc[p] = from
    /\ loc' = [loc EXCEPT ![p] =
                 [InitLoc EXCEPT !.op = "mark", !.playlistId = pid, !.trackIds = trackIds,
                                 !.memory = mem[pid], !.pre = mem[pid], !.cont = cont]]
    /\ pc' = [pc EXCEPT ![p] = "markLoaded"]
    /\ UNCHANGED <<catalog, mem, shuffleLocks, seen, committed>>

\* 535-553
MarkLoaded(p) ==
    /\ pc[p] = "markLoaded"
    /\ LET m == loc[p].memory IN
       IF ~m.exists
       THEN ReturnBool(p, FALSE) /\ UNCHANGED mem
       ELSE LET played == addPlayed(m.playedTrackIds, loc[p].trackIds) IN
            IF Len(played) > Len(m.playedTrackIds)
            THEN /\ mem' = [mem EXCEPT ![loc[p].playlistId] = [m EXCEPT !.playedTrackIds = played]]
                 /\ pc' = [pc EXCEPT ![p] = "markSaved"]
                 /\ UNCHANGED <<loc, committed>>
            ELSE ReturnBool(p, TRUE) /\ UNCHANGED mem
    /\ UNCHANGED <<catalog, shuffleLocks, seen, qVars, calls, now, recent>>

\* 549 -> 550
MarkSaved(p) ==
    /\ pc[p] = "markSaved"
    /\ ReturnBool(p, TRUE)
    /\ UNCHANGED <<catalog, mem, shuffleLocks, seen, qVars, calls, now, recent>>

\* the call, up to the await of loadShuffleMemory (574)
rollbackUnqueuedTracks(p, pid, trackIds, from, cont) ==
    /\ pc[p] = from
    /\ loc' = [loc EXCEPT ![p] =
                 [InitLoc EXCEPT !.op = "rollback", !.playlistId = pid, !.trackIds = trackIds,
                                 !.memory = mem[pid], !.pre = mem[pid], !.cont = cont,
                                 !.before =
                                     IF /\ pc[p] = "idle"
                                        /\ loc[p].op = "mark"
                                        /\ loc[p].playlistId = pid
                                        /\ loc[p].trackIds = trackIds
                                        /\ loc[p].result = [ok |-> TRUE]
                                     THEN [played |-> PlayedIds(loc[p].pre)]
                                     ELSE NoResult]]
    /\ pc' = [pc EXCEPT ![p] = "rollbackLoaded"]
    /\ committed' = [committed EXCEPT ![pid] = @ \ Range(trackIds)]
    /\ UNCHANGED <<catalog, mem, shuffleLocks, seen>>

\* RollbackLoaded answering false when no id had to be removed
RollbackLoadedStrict(p) ==
    /\ pc[p] = "rollbackLoaded"
    /\ LET m == loc[p].memory IN
       IF ~m.exists
       THEN ReturnBool(p, FALSE) /\ UNCHANGED mem
       ELSE LET played == removePlayed(m.playedTrackIds, loc[p].trackIds) IN
            IF Len(m.playedTrackIds) - Len(played) > 0
            THEN /\ mem' = [mem EXCEPT ![loc[p].playlistId] = [m EXCEPT !.playedTrackIds = played]]
                 /\ pc' = [pc EXCEPT ![p] = "rollbackSaved"]
                 /\ UNCHANGED <<loc, committed>>
            ELSE ReturnBool(p, FALSE) /\ UNCHANGED mem
    /\ UNCHANGED <<catalog, shuffleLocks, seen, qVars, calls, now, recent>>

\* 576-595
RollbackLoaded(p) ==
    /\ pc[p] = "rollbackLoaded"
    /\ LET m == loc[p].memory IN
       IF ~m.exists
       THEN ReturnBool(p, FALSE) /\ UNCHANGED mem
       ELSE LET played == removePlayed(m.playedTrackIds, loc[p].trackIds) IN
            IF Len(m.playedTrackIds) - Len(played) > 0
            THEN /\ mem' = [mem EXCEPT ![loc[p].playlistId] = [m EXCEPT !.playedTrackIds = played]]
                 /\ pc' = [pc EXCEPT ![p] = "rollbackSaved"]
                 /\ UNCHANGED <<loc, committed>>
            ELSE ReturnBool(p, TRUE) /\ UNCHANGED mem
    /\ UNCHANGED <<catalog, shuffleLocks, seen, qVars, calls, now, recent>>

\* 591 -> 592
RollbackSaved(p) ==
    /\ pc[p] = "rollbackSaved"
    /\ ReturnBool(p, TRUE)
    /\ UNCHANGED <<catalog, mem, shuffleLocks, seen, qVars, calls, now, recent>>

\* getPlaylistProgress (442-467) on the memory its load answers: null, or
\* the stats (the percentage is not a number for totalTracks = 0)
getPlaylistProgress(memory, totalTracks) ==
    IF ~memory.exists THEN NoResult
    ELSE LET played    == Len(memory.playedTrackIds)
             remaining == totalTracks - played
         IN  [ played        |-> played,
               remaining     |-> remaining,
               cycleComplete |-> remaining = 0,
               cycleNumber   |-> memory.cycleNumber,
               percentage    |-> IF totalTracks = 0 THEN -1
                                 ELSE Percentage(played, totalTracks) ]

\* getGlobalStats (part_002 48-128) on the ids getTrackedPlaylists answered,
\* in their order, and the stored memories
getGlobalStats(playlistIds, store) ==
    IF Len(playlistIds) = 0
    THEN [totalHeard |-> 0, playlistCount |-> 0, totalCycles |-> 0, mostPlayed |-> NoResult]
    ELSE LET RECURSIVE Aggregate(_, _)
             Aggregate(acc, k) ==
                 IF k > Len(playlistIds) THEN acc
                 ELSE LET playlistId == playlistIds[k]
                          memory     == store[playlistId]
                          progress   == IF ~memory.exists THEN NoResult
                                        ELSE getPlaylistProgress(memory, memory.totalTracks)
                          candidate  == [ playlistId  |-> playlistId,
                                          cycleNumber |-> progress.cycleNumber,
                                          played      |-> progress.played ]
                      IN  IF progress = NoResult THEN Aggregate(acc, k + 1)
                          ELSE Aggregate(
                                 [ totalHeard  |-> acc.totalHeard + progress.played,
                                   totalCycles |-> acc.totalCycles + progress.cycleNumber,
                                   mostPlayed  |->
                                       IF acc.mostPlayed = NoResult
                                       THEN candidate
                                       ELSE IF progress.cycleNumber > acc.mostPlayed.cycleNumber
                                       THEN candidate
                                       ELSE IF /\ progress.cycleNumber = acc.mostPlayed.cycleNumber
                                               /\ progress.played > acc.mostPlayed.played
                                       THEN candidate
                                       ELSE acc.mostPlayed ],
                                 k + 1)
             sums == Aggregate([totalHeard |-> 0, totalCycles |-> 0, mostPlayed |-> NoResult], 1)
         IN  [ totalHeard    |-> sums.totalHeard,
               playlistCount |-> Len(playlistIds),
               totalCycles   |-> sums.totalCycles,
               mostPlayed    |-> sums.mostPlayed ]

\* resetPlaylistMemory (473-480): removeItem; nothing happens after its await
resetPlaylistMemory(p, pid) ==
    /\ pc[p] = "idle"
    /\ mem' = [mem EXCEPT ![pid] = NoMem]
    /\ loc' = [loc EXCEPT ![p] = [InitLoc EXCEPT !.op = "reset", !.playlistId = pid,
                                                !.pre = mem[pid]]]
    /\ committed' = [committed EXCEPT ![pid] = {}]
    /\ seen' = [seen EXCEPT ![pid] = {}]
    /\ UNCHANGED <<catalog, shuffleLocks, pc>>

\* ------------------------------------------------------------------------
\* Track uris.  A uri is the sequence of its parts between the colons,
\* "spotify:track:<id>" being <<"spotify", "track", id>>.  A local file of
\* a playlist has a uri of another kind.
\* ------------------------------------------------------------------------

\* ids of the catalog tracks that are local files
LocalTrackIds == {3}

\* track.uri
uriOf(id) ==
    IF id \in LocalTrackIds THEN <<"spotify", "local", id>>
    ELSE <<"spotify", "track", id>>

\* /^spotify:track:[a-zA-Z0-9]{22}$/ : three parts, the last one a track id
isValidSpotifyTrackUri(uri) ==
    /\ Len(uri) = 3
    /\ uri[1] = "spotify"
    /\ uri[2] = "track"
    /\ uri[3] \in Nat

RECURSIVE validUris(_)
validUris(uris) ==
    IF uris = <<>> THEN <<>>
    ELSE (IF isValidSpotifyTrackUri(Head(uris)) THEN <<Head(uris)>> ELSE <<>>)
             \o validUris(Tail(uris))

validateTrackUris(uris) ==
    [ validUris    |-> validUris(uris),
      invalidCount |-> Len(uris) - Len(validUris(uris)) ]

\* more than this many percent of invalid uris abort the start
MaxInvalidPercent == 10

\* the threshold reached already at the limit itself
tooManyInvalidInclusive(invalidCount, total) ==
    invalidCount > 0 /\ invalidCount * 100 >= MaxInvalidPercent * total

\* (invalidCount / trackUris.length) * 100 > 10
tooManyInvalid(invalidCount, total) ==
    invalidCount > 0 /\ invalidCount * 100 > MaxInvalidPercent * total

\* uri.split(':') and its last part
trackIdOf(uri) == uri[Len(uri)]

\* uris.map(uri => last part of uri)
UriIds(uris) == [k \in 1 .. Len(uris) |-> trackIdOf(uris[k])]

\* tracks.map(t => t.uri)
UrisOf(tracks) == [k \in 1 .. Len(tracks) |-> uriOf(tracks[k])]

\* ------------------------------------------------------------------------
\* The background queue  (queueBackgroundService.ts 1-445)
\* ------------------------------------------------------------------------

\* loadQueueState returns null when the key is not stored
NoState == [exists |-> FALSE]

\* createInitialState with the cursor already past the first queued track
createInitialStateAtOne(playlistId, validatedTrackUris, firstTrackUri) ==
    [ exists       |-> TRUE,
      playlistId   |-> playlistId,
      tracks       |-> validatedTrackUris,
      firstTrackUri |-> firstTrackUri,
      currentIndex |-> 1,
      totalTracks  |-> Len(validatedTrackUris),
      isActive     |-> TRUE,
      startedAt    |-> now ]

\* the record startBackgroundQueue creates (365-376)
createInitialState(playlistId, validatedTrackUris, firstTrackUri) ==
    [ exists       |-> TRUE,
      playlistId   |-> playlistId,
      tracks       |-> validatedTrackUris,
      firstTrackUri |-> firstTrackUri,
      currentIndex |-> 0,
      totalTracks  |-> Len(validatedTrackUris),
      isActive     |-> TRUE,
      startedAt    |-> now ]

\* state?.isActive ?? false
isQueueActive(state) == state.exists /\ state.isActive

\* the device is probed before every track whose index is a multiple of this
HealthCheckEvery == 25

\* queueTrackWithRetry: retries after a rate limit
MaxRetries == 3

\* a progress notification is due after this many tracks
ProgressEvery == 3

\* What the enqueue call throws (catch (error: any)): an Error object or
\* another value, its status 429 or not, its message holding '429' or not.
EnqueueErrors == [isError : BOOLEAN, status429 : BOOLEAN, msg429 : BOOLEAN]

\* every error taken for a rate limit
isRateLimitAlways(e) == TRUE

\* error?.status === 429 || error?.message?.includes('429')
isRateLimit(e) == e.status429 \/ e.msg429

\* error instanceof Error && !error.message.includes('429')
isUnrecoverable(e) == e.isError /\ ~e.msg429

InitQLoc ==
    [ tracks          |-> <<>>,     \* params.tracks
      state           |-> NoState,  \* the `state` object of the delivery
      loaded          |-> NoState,  \* what loadQueueState answered
      i               |-> 0,        \* the loop index
      retryCount      |-> 0,
      lastUpdateIndex |-> 0,
      willReturn      |-> "true",   \* what startBackgroundQueue will return
      ret             |-> "none",   \* what the tap came to: "none", "ignored", "true", "false"
      validRefs       |-> FALSE,    \* history: the start call passed the validation
      prior           |-> "none",   \* history: the stored record when start was called
      delivered       |-> {},       \* history: indices whose enqueue succeeded
      skipped         |-> {},       \* history: indices the loop went past without success
      exhausted       |-> FALSE,    \* history: a track was rate limited on all attempts
      otherError      |-> FALSE,    \* history: an enqueue was answered with another error
      stopCursor      |-> -1,       \* history: the cursor of the record a stop made inactive
      waits           |-> <<>>,     \* history: the delays (ms) waited for the current track
      rateLimited     |-> FALSE,    \* history: the answer before this attempt had status 429
                                    \* or '429' in its message
      outcome         |-> "none" ]  \* history: "Running", "Completed", "Failed"

\* handleTaskError after the rollback (306-310): the error notification is
\* shown
FinishError(p, l) ==
    /\ notification' = "error"
    /\ qloc' = [qloc EXCEPT ![p] = l]
    /\ pc' = [pc EXCEPT ![p] = "errorNotified"]
    /\ UNCHANGED <<qstate, deviceQueue>>

\* handleTaskError rolling back every track of the record, the delivered
\* ones too
handleTaskErrorAll(p, state, from, l) ==
    IF state.exists /\ state.currentIndex < Len(state.tracks)
    THEN /\ rollbackUnqueuedTracks(p, state.playlistId, UriIds(state.tracks),
                from, "errorRolled")
         /\ qloc' = [qloc EXCEPT ![p] = l]
         /\ UNCHANGED <<qstate, deviceQueue, notification>>
    ELSE /\ pc[p] = from
         /\ FinishError(p, l)
         /\ UNCHANGED <<catalog, mem, shuffleLocks, loc, seen, committed>>

\* handleTaskError (285-314) up to its first await; l is the caller's locals
handleTaskError(p, state, from, l) ==
    IF state.exists /\ state.currentIndex < Len(state.tracks)
    THEN /\ rollbackUnqueuedTracks(p, state.playlistId,
                UriIds(SubSeq(state.tracks, state.currentIndex + 1, Len(state.tracks))),
                from, "errorRolled")
         /\ qloc' = [qloc EXCEPT ![p] = l]
         /\ UNCHANGED <<qstate, deviceQueue, notification>>
    ELSE /\ pc[p] = from
         /\ FinishError(p, l)
         /\ UNCHANGED <<catalog, mem, shuffleLocks, loc, seen, committed>>

\* handleTaskComplete (242-261) up to its first await
handleTaskComplete(p, state, from, l) ==
    /\ markTracksAsPlayed(p, state.playlistId,
            <<trackIdOf(state.firstTrackUri)>> \o UriIds(state.tracks),
            from, "completeMarked")
    /\ qloc' = [qloc EXCEPT ![p] = l]
    /\ UNCHANGED <<qstate, deviceQueue>>

\* processQueue at the head of its loop (154-170, 205) with the index l.i:
\* the probe or the enqueue request is sent, or the loop is over
LoopHead(p, from, l) ==
    IF l.i < Len(l.state.tracks)
    THEN /\ pc[p] = from
         /\ pc' = [pc EXCEPT ![p] =
                     IF l.i > 0 /\ l.i % HealthCheckEvery = 0 THEN "health" ELSE "enqueue"]
         /\ qloc' = [qloc EXCEPT ![p] = l]
         /\ UNCHANGED <<catalog, mem, shuffleLocks, loc, seen, committed, qstate, deviceQueue>>
    ELSE handleTaskComplete(p, l.state, from, l)

\* startBackgroundQueue (324-400) up to its first await; tracks are the
\* params.tracks
startBackgroundQueue(p, playlistId, tracks, firstTrackUri, from) ==
    LET trackUris  == UrisOf(Tail(tracks))
        validation == validateTrackUris(trackUris)
        l0 == [qloc[p] EXCEPT !.tracks = tracks, !.i = 0, !.retryCount = 0,
                              !.lastUpdateIndex = 0, !.ret = "none",
                              !.delivered = {}, !.skipped = {}, !.exhausted = FALSE,
                              !.otherError = FALSE,
                              !.prior = IF ~qstate.exists THEN "none"
                                        ELSE IF qstate.isActive THEN "active"
                                        ELSE "stopped"]
    IN  /\ pc[p] = from
        /\ IF tooManyInvalid(validation.invalidCount, Len(trackUris))
           THEN \* thrown to the catch: loadQueueState
                /\ qloc' = [qloc EXCEPT ![p] =
                              [l0 EXCEPT !.loaded = qstate, !.willReturn = "false",
                                         !.validRefs = FALSE, !.state = NoState,
                                         !.outcome = "none"]]
                /\ pc' = [pc EXCEPT ![p] = "startCatch"]
                /\ UNCHANGED qstate
           ELSE LET state == createInitialState(playlistId, validation.validUris,
                                                firstTrackUri)
                IN  /\ qstate' = state
                    /\ qloc' = [qloc EXCEPT ![p] =
                                  [l0 EXCEPT !.state = state, !.willReturn = "true",
                                             !.validRefs = TRUE, !.outcome = "Running"]]
                    /\ pc' = [pc EXCEPT ![p] = "startSaved"]
        /\ UNCHANGED <<catalog, mem, shuffleLocks, loc, seen, committed,
                       deviceQueue, notification>>

\* the save answered: start notification, then processQueue (383-387)
StartSaved(p) ==
    /\ pc[p] = "startSaved"
    /\ notification' = "start"
    /\ LoopHead(p, "startSaved", [qloc[p] EXCEPT !.i = qloc[p].state.currentIndex,
                                    !.lastUpdateIndex = qloc[p].state.currentIndex])
    /\ UNCHANGED <<faults, calls, now, recent>>

\* the catch of startBackgroundQueue, loadQueueState answered (393-398)
StartCatch(p) ==
    /\ pc[p] = "startCatch"
    /\ handleTaskError(p, qloc[p].loaded, "startCatch", [qloc[p] EXCEPT !.loaded = NoState])
    /\ UNCHANGED <<faults, calls, now, recent>>

\* verifyDeviceHealth answered (160-169)
HealthAnswered(p) ==
    /\ pc[p] = "health"
    /\ \E deviceHealthy \in BOOLEAN :
          IF deviceHealthy
          THEN /\ pc' = [pc EXCEPT ![p] = "enqueue"]
               /\ UNCHANGED <<catalog, mem, shuffleLocks, loc, seen, committed,
                              qstate, qloc, deviceQueue, notification, faults>>
          ELSE /\ faults < MaxFaults
               /\ faults' = faults + 1
               /\ handleTaskError(p, qloc[p].state, "health", qloc[p])
    /\ UNCHANGED <<calls, now, recent>>

\* SpotifyService.addToQueue answered for tracks[i] (170-174, 193-201, 219-232)
EnqueueAnswered(p) ==
    /\ pc[p] = "enqueue"
    /\ LET l     == qloc[p]
           state == l.state
           uri   == state.tracks[l.i + 1]
       IN  \/ \* queued: state.currentIndex = i + 1, saveQueueState
              LET state2 == [state EXCEPT !.currentIndex = l.i + 1] IN
              /\ deviceQueue' = Append(deviceQueue, uri)
              /\ qstate' = state2
              /\ qloc' = [qloc EXCEPT ![p] =
                            [l EXCEPT !.state = state2, !.retryCount = 0,
                                      !.waits = <<>>, !.rateLimited = FALSE,
                                      !.delivered = @ \cup {l.i}]]
              /\ pc' = [pc EXCEPT ![p] = "saved"]
              /\ UNCHANGED <<catalog, mem, shuffleLocks, loc, seen, committed,
                             notification, faults>>
           \/ \E e \in EnqueueErrors :
                /\ l.retryCount = 0 => faults < MaxFaults
                /\ faults' = IF l.retryCount = 0 THEN faults + 1 ELSE faults
                /\ IF isRateLimit(e) /\ l.retryCount < MaxRetries
                   THEN \* wait Math.pow(2, retryCount) * 1000 ms and ask again
                        /\ qloc' = [qloc EXCEPT ![p].retryCount = @ + 1,
                                                 ![p].waits = Append(@, (2 ^ l.retryCount) * 1000),
                                                 ![p].rateLimited = e.status429 \/ e.msg429]
                        /\ UNCHANGED <<catalog, mem, shuffleLocks, pc, loc, seen, committed,
                                       qstate, deviceQueue, notification>>
                   ELSE LET l2 == [l EXCEPT !.retryCount = 0,
                                            !.waits = <<>>, !.rateLimited = FALSE,
                                            !.exhausted = @ \/ isRateLimit(e),
                                            !.otherError = @ \/ ~isRateLimit(e)]
                        IN  IF isUnrecoverable(e)
                            THEN handleTaskError(p, state, "enqueue", l2)
                            ELSE \* the catch block ends, the loop goes on
                                 /\ LoopHead(p, "enqueue",
                                        [l2 EXCEPT !.i = l.i + 1, !.skipped = @ \cup {l.i}])
                                 /\ UNCHANGED notification
    /\ UNCHANGED <<calls, now, recent>>

\* saveQueueState answered: progress notification, pause, next index (176-191)
QueueSaved(p) ==
    /\ pc[p] = "saved"
    /\ LET l          == qloc[p]
           next       == l.i + 1
           isComplete == next = l.state.totalTracks
           due        == next - l.lastUpdateIndex >= ProgressEvery \/ isComplete
       IN  \E shouldUpdate \in BOOLEAN :
             /\ due => shouldUpdate
             /\ notification' = IF shouldUpdate THEN "progress" ELSE notification
             /\ LoopHead(p, "saved",
                    [l EXCEPT !.i = next,
                              !.lastUpdateIndex = IF shouldUpdate THEN next ELSE @])
    /\ UNCHANGED <<faults, calls, now, recent>>

\* CompleteMarked showing the notification only after a commit that
\* returned true
CompleteMarkedOnly(p) ==
    /\ pc[p] = "completeMarked"
    /\ notification' = IF loc[p].result.ok THEN "complete" ELSE notification
    /\ pc' = [pc EXCEPT ![p] = "completeNotified"]
    /\ UNCHANGED <<catalog, mem, shuffleLocks, loc, seen, committed,
                   qstate, qloc, deviceQueue, faults, calls, now, recent>>

\* markTracksAsPlayed answered in handleTaskComplete (261-276), true or
\* false: the completion notification is shown
CompleteMarked(p) ==
    /\ pc[p] = "completeMarked"
    /\ notification' = "complete"
    /\ pc' = [pc EXCEPT ![p] = "completeNotified"]
    /\ UNCHANGED <<catalog, mem, shuffleLocks, loc, seen, committed,
                   qstate, qloc, deviceQueue, faults, calls, now, recent>>

\* the completion notification answered (278-279, 390): clearQueueState,
\* startBackgroundQueue returns true
CompleteNotified(p) ==
    /\ pc[p] = "completeNotified"
    /\ qstate' = NoState
    /\ qloc' = [qloc EXCEPT ![p].ret = "true", ![p].outcome = "Completed"]
    /\ pc' = [pc EXCEPT ![p] = "idle"]
    /\ UNCHANGED <<catalog, mem, shuffleLocks, loc, seen, committed,
                   deviceQueue, notification, faults, calls, now, recent>>

\* rollbackUnqueuedTracks answered in handleTaskError (297-313)
ErrorRolled(p) ==
    /\ pc[p] = "errorRolled"
    /\ FinishError(p, qloc[p])
    /\ UNCHANGED <<catalog, mem, shuffleLocks, loc, seen, committed, faults, calls, now, recent>>

\* the error notification answered (312-313): clearQueueState, and the
\* caller of handleTaskError returns
ErrorNotified(p) ==
    /\ pc[p] = "errorNotified"
    /\ qstate' = NoState
    /\ qloc' = [qloc EXCEPT ![p].ret = qloc[p].willReturn, ![p].outcome = "Failed"]
    /\ pc' = [pc EXCEPT ![p] = "idle"]
    /\ UNCHANGED <<catalog, mem, shuffleLocks, loc, seen, committed,
                   deviceQueue, notification, faults, calls, now, recent>>

\* stopBackgroundQueue (405-409) up to the await of loadQueueState
stopBackgroundQueue(p) ==
    /\ pc[p] = "idle"
    /\ qloc' = [qloc EXCEPT ![p].loaded = qstate]
    /\ pc' = [pc EXCEPT ![p] = "stopLoaded"]
    /\ UNCHANGED <<catalog, mem, shuffleLocks, loc, seen, committed,
                   qstate, deviceQueue, notification, faults>>

\* 410-416: the loaded record is saved with isActive = false, the
\* notification is dismissed
StopLoaded(p) ==
    /\ pc[p] = "stopLoaded"
    /\ qstate' = IF qloc[p].loaded.exists
                 THEN [qloc[p].loaded EXCEPT !.isActive = FALSE]
                 ELSE qstate
    /\ notification' = "none"
    /\ qloc' = [qloc EXCEPT ![p].loaded = NoState,
                             ![p].stopCursor =
                                 IF qloc[p].loaded.exists /\ qstate.exists
                                 THEN qstate.currentIndex ELSE -1]
    /\ pc' = [pc EXCEPT ![p] = "idle"]
    /\ UNCHANGED <<catalog, mem, shuffleLocks, loc, seen, committed,
                   deviceQueue, faults, calls, now, recent>>

\* ------------------------------------------------------------------------
\* The playlist tap  (part_000 192-239, part_003 167-229)
\* ------------------------------------------------------------------------

\* handlePlaylistSelect up to the await of isQueueActive
handlePlaylistSelect(p) ==
    /\ pc[p] = "idle"
    /\ qloc' = [qloc EXCEPT ![p] = [InitQLoc EXCEPT !.loaded = qstate]]
    /\ pc' = [pc EXCEPT ![p] = "activeChecked"]
    /\ UNCHANGED <<catalog, mem, shuffleLocks, loc, seen, committed,
                   qstate, deviceQueue, notification, faults>>

\* isQueueActive answered (196-238): the tap is ignored, or the other
\* checks are made and the mutation is triggered
ActiveChecked(p) ==
    /\ pc[p] = "activeChecked"
    /\ IF isQueueActive(qloc[p].loaded)
       THEN /\ pc' = [pc EXCEPT ![p] = "idle"]
            /\ qloc' = [qloc EXCEPT ![p].ret = "ignored", ![p].loaded = NoState]
       ELSE /\ pc' = [pc EXCEPT ![p] = "selected"]
            /\ qloc' = [qloc EXCEPT ![p].loaded = NoState]
    /\ UNCHANGED <<catalog, mem, shuffleLocks, loc, seen, committed,
                   qstate, deviceQueue, notification, faults, calls, now, recent>>

\* the mutation after getSmartShuffledTracks (199-215): no tracks or no
\* device end it; else the first track is played
queueShuffleMutation(p) ==
    /\ pc[p] = "shuffled"
    /\ LET tracks == loc[p].result.tracks IN
       IF Len(tracks) = 0
       THEN /\ pc' = [pc EXCEPT ![p] = "idle"]
            /\ qloc' = [qloc EXCEPT ![p].ret = "false"]
            /\ UNCHANGED <<notification, faults>>
       ELSE \/ /\ faults < MaxFaults
               /\ faults' = faults + 1
               /\ notification' = "error"
               /\ pc' = [pc EXCEPT ![p] = "idle"]
               /\ qloc' = [qloc EXCEPT ![p].ret = "false"]
            \/ /\ pc' = [pc EXCEPT ![p] = "played"]
               /\ qloc' = [qloc EXCEPT ![p].tracks = tracks]
               /\ UNCHANGED <<notification, faults>>
    /\ UNCHANGED <<catalog, mem, shuffleLocks, loc, seen, committed,
                   qstate, deviceQueue, calls, now, recent>>

\* the first track was played: startBackgroundQueue is called (217-228)
QueueStart(p) ==
    /\ startBackgroundQueue(p, loc[p].playlistId, qloc[p].tracks,
                            uriOf(qloc[p].tracks[1]), "played")
    /\ UNCHANGED <<faults, calls, now, recent>>

\* ------------------------------------------------------------------------
\* Initial states
\* ------------------------------------------------------------------------

InitQ ==
    /\ qstate = NoState
    /\ qloc = [p \in Procs |-> InitQLoc]
    /\ deviceQueue = <<>>
    /\ notification = "none"
    /\ faults = 0
    /\ calls = 0
    /\ now = 0
    /\ recent = <<>>

InitEngine ==
    /\ mem = [pid \in Playlists |-> NoMem]
    /\ shuffleLocks = [pid \in Playlists |-> 0]
    /\ pc = [p \in Procs |-> "idle"]
    /\ loc = [p \in Procs |-> InitLoc]
    /\ seen = [pid \in Playlists |-> {}]
    /\ committed = [pid \in Playlists |-> {}]

\* ------------------------------------------------------------------------
\* SpecCycle: one caller asks for batch after batch of an unchanging
\* playlist and commits every batch before asking for the next
\* ------------------------------------------------------------------------

CycleLists == {<<1, 2, 3>>, BigList}

InitCycle ==
    /\ catalog \in [Playlists -> CycleLists]
    /\ InitEngine
    /\ InitQ

CycleShuffle ==
    \E pid \in Playlists :
        /\ loc[1].op # "shuffle"
        /\ getSmartShuffledTracks(1, pid, "idle", "idle")
        /\ UNCHANGED <<qVars, calls, now, recent>>

CycleCommit ==
    /\ loc[1].op = "shuffle"
    /\ markTracksAsPlayed(1, loc[1].playlistId, loc[1].result.tracks, "idle", "idle")
    /\ UNCHANGED <<qVars, calls, now, recent>>

NextCycle ==
    \/ CycleShuffle
    \/ ShuffleLoaded(1)
    \/ ShuffleSavedFresh(1)
    \/ ShuffleSavedRollover(1)
    \/ ShuffleRecursed(1)
    \/ CycleCommit
    \/ MarkLoaded(1)
    \/ MarkSaved(1)

SpecCycle == InitCycle /\ [][NextCycle]_vars

\* ------------------------------------------------------------------------
\* Spec: one caller uses the engine, one call after the other, with any
\* arguments, while the playlist is edited in the catalog
\* ------------------------------------------------------------------------

LiveLists == {<<>>, <<1, 2>>, <<2, 1>>, <<1, 2, 3>>, <<1, 1, 2>>}

IdLists == {<<1>>, <<1, 2>>, <<3>>, <<1, 2, 3>>, <<2, 2>>}

Init ==
    /\ catalog \in [Playlists -> LiveLists]
    /\ InitEngine
    /\ InitQ

EditCatalog ==
    /\ pc[1] = "idle"
    /\ \E pid \in Playlists, tracks \in LiveLists :
          /\ tracks # catalog[pid]
          /\ catalog' = [catalog EXCEPT ![pid] = tracks]
    /\ UNCHANGED <<mem, shuffleLocks, pc, loc, seen, committed, qVars, calls, now, recent>>

SeqShuffle ==
    \E pid \in Playlists :
        getSmartShuffledTracks(1, pid, "idle", "idle") /\ UNCHANGED <<qVars, calls, now, recent>>

SeqMark ==
    \E pid \in Playlists, ids \in IdLists :
        markTracksAsPlayed(1, pid, ids, "idle", "idle") /\ UNCHANGED <<qVars, calls, now, recent>>

SeqRollback ==
    \E pid \in Playlists, ids \in IdLists :
        rollbackUnqueuedTracks(1, pid, ids, "idle", "idle") /\ UNCHANGED <<qVars, calls, now, recent>>

SeqReset ==
    \E pid \in Playlists : resetPlaylistMemory(1, pid) /\ UNCHANGED <<qVars, calls, now, recent>>

Next ==
    \/ EditCatalog
    \/ SeqShuffle
    \/ ShuffleLoaded(1)
    \/ ShuffleSavedFresh(1)
    \/ ShuffleSavedChanged(1)
    \/ ShuffleSavedPruned(1)
    \/ ShuffleSavedRollover(1)
    \/ ShuffleRecursed(1)
    \/ SeqMark
    \/ MarkLoaded(1)
    \/ MarkSaved(1)
    \/ SeqRollback
    \/ RollbackLoaded(1)
    \/ RollbackSaved(1)
    \/ SeqReset
    \/ \* the progress of a playlist is asked for (part_003 285)
       \E pid \in Playlists :
           /\ pc[1] = "idle"
           /\ loc' = [loc EXCEPT ![1] =
                        [InitLoc EXCEPT !.op = "progress", !.playlistId = pid,
                                        !.pre = mem[pid],
                                        !.result = getPlaylistProgress(mem[pid],
                                                                       Len(catalog[pid]))]]
           /\ UNCHANGED <<catalog, mem, shuffleLocks, pc, seen, committed,
                          qVars, calls, now, recent>>

Spec == Init /\ [][Next]_vars

\* ------------------------------------------------------------------------
\* SpecConc: several callers use the engine on one playlist at once
\* ------------------------------------------------------------------------

\* calls in one run
MaxCalls == 4

ConcMarkIds == {<<1>>, <<2>>, <<1, 2>>}

ConcRollbackIds == {<<1>>}

Called ==
    /\ calls < MaxCalls
    /\ calls' = calls + 1
    /\ UNCHANGED <<now, recent>>
    /\ UNCHANGED qVars

InitConc ==
    /\ catalog = [pid \in Playlists |-> <<1, 2>>]
    /\ InitEngine
    /\ InitQ

ConcShuffle ==
    \E p \in Procs, pid \in Playlists :
        getSmartShuffledTracks(p, pid, "idle", "idle") /\ Called

ConcMark ==
    \E p \in Procs, pid \in Playlists, ids \in ConcMarkIds :
        markTracksAsPlayed(p, pid, ids, "idle", "idle") /\ Called

ConcRollback ==
    \E p \in Procs, pid \in Playlists, ids \in ConcRollbackIds :
        rollbackUnqueuedTracks(p, pid, ids, "idle", "idle") /\ Called

NextConc ==
    \/ ConcShuffle
    \/ \E p \in Procs : ShuffleResume(p)
    \/ \E p \in Procs : ShuffleLoaded(p)
    \/ \E p \in Procs : ShuffleSavedFresh(p)
    \/ \E p \in Procs : ShuffleSavedRollover(p)
    \/ \E p \in Procs : ShuffleRecursed(p)
    \/ ConcMark
    \/ \E p \in Procs : MarkLoaded(p)
    \/ \E p \in Procs : MarkSaved(p)
    \/ ConcRollback
    \/ \E p \in Procs : RollbackLoaded(p)
    \/ \E p \in Procs : RollbackSaved(p)

SpecConc == InitConc /\ [][NextConc]_vars

\* ------------------------------------------------------------------------
\* SpecLock: every user calls once for a batch of the playlist, at any
\* time, and a delivery commits the whole playlist once, under the
\* scheduling of the event loop: a continuation that can run does run.  The fairness is
\* WF_vars of the continuations of each caller, written out with their
\* enabling condition: the caller is in a call and not awaiting a promise.
\* (The callers are too few for a call to reach MaxCycle or MaxDepth.)
\* ------------------------------------------------------------------------

NextLock ==
    \/ \* a user calls for a batch
       \E p \in Users, pid \in Playlists :
           /\ loc[p].op = "none"
           /\ getSmartShuffledTracks(p, pid, "idle", "idle")
           /\ Called
    \/ \* a delivery commits every track of the playlist
       \E pid \in Playlists :
           /\ loc[NumProcs].op = "none"
           /\ markTracksAsPlayed(NumProcs, pid, catalog[pid], "idle", "idle")
           /\ Called
    \/ \E p \in Users : ShuffleResume(p)
    \/ \E p \in Users : ShuffleLoaded(p)
    \/ \E p \in Users : ShuffleSavedFresh(p)
    \/ \E p \in Users : ShuffleSavedRollover(p)
    \/ \E p \in Users : ShuffleRecursed(p)
    \/ MarkLoaded(NumProcs)
    \/ MarkSaved(NumProcs)

SpecLock ==
    /\ InitConc
    /\ [][NextLock]_vars
    /\ \A p \in Procs :
          \/ []<>(pc[p] \in {"idle", "awaitLock"})
          \/ []<><<\/ ShuffleResume(p)
                   \/ ShuffleLoaded(p)
                   \/ ShuffleSavedFresh(p)
                   \/ ShuffleSavedRollover(p)
                   \/ ShuffleRecursed(p)
                   \/ MarkLoaded(p)
                   \/ MarkSaved(p)>>_vars

\* ------------------------------------------------------------------------
\* SpecDelivery: a user taps playlists, one tap after the other has been
\* served, and stop is pressed at any time; every call of the playback
\* service can fail
\* ------------------------------------------------------------------------

InitDelivery ==
    /\ catalog = [pid \in Playlists |-> <<1, 2, 3>>]
    /\ InitEngine
    /\ InitQ

DeliveryTap ==
    /\ calls < MaxTaps
    /\ calls' = calls + 1
    /\ UNCHANGED <<now, recent>>
    /\ handlePlaylistSelect(1)

DeliveryShuffle ==
    \E pid \in Playlists :
        getSmartShuffledTracks(1, pid, "selected", "shuffled") /\ UNCHANGED <<qVars, calls, now, recent>>

DeliveryStop == stopBackgroundQueue(2) /\ UNCHANGED <<calls, now, recent>>

NextDelivery ==
    \/ DeliveryTap
    \/ ActiveChecked(1)
    \/ DeliveryShuffle
    \/ ShuffleLoaded(1)
    \/ ShuffleSavedFresh(1)
    \/ ShuffleSavedRollover(1)
    \/ ShuffleRecursed(1)
    \/ queueShuffleMutation(1)
    \/ QueueStart(1)
    \/ StartSaved(1)
    \/ StartCatch(1)
    \/ EnqueueAnswered(1)
    \/ QueueSaved(1)
    \/ MarkLoaded(1)
    \/ MarkSaved(1)
    \/ CompleteMarked(1)
    \/ CompleteNotified(1)
    \/ RollbackLoaded(1)
    \/ ErrorRolled(1)
    \/ ErrorNotified(1)
    \/ DeliveryStop
    \/ StopLoaded(2)

SpecDelivery == InitDelivery /\ [][NextDelivery]_vars

\* ------------------------------------------------------------------------
\* SpecTaps: playlists are tapped by several users of the device, a tap
\* also while an earlier one is still being served
\* ------------------------------------------------------------------------

TapsTap ==
    \E p \in Users :
        /\ calls < MaxTaps
        /\ calls' = calls + 1
        /\ UNCHANGED <<now, recent>>
        /\ handlePlaylistSelect(p)

TapsShuffle ==
    \E p \in Users, pid \in Playlists :
        getSmartShuffledTracks(p, pid, "selected", "shuffled") /\ UNCHANGED <<qVars, calls, now, recent>>

NextTaps ==
    \/ TapsTap
    \/ \E p \in Users : ActiveChecked(p)
    \/ TapsShuffle
    \/ \E p \in Users : ShuffleResume(p)
    \/ \E p \in Users : ShuffleLoaded(p)
    \/ \E p \in Users : ShuffleSavedFresh(p)
    \/ \E p \in Users : ShuffleSavedRollover(p)
    \/ \E p \in Users : ShuffleRecursed(p)
    \/ \E p \in Users : queueShuffleMutation(p)
    \/ \E p \in Users : QueueStart(p)
    \/ \E p \in Users : StartSaved(p)
    \/ \E p \in Users : StartCatch(p)
    \/ \E p \in Users : EnqueueAnswered(p)
    \/ \E p \in Users : QueueSaved(p)
    \/ \E p \in Users : MarkLoaded(p)
    \/ \E p \in Users : MarkSaved(p)
    \/ \E p \in Users : CompleteMarked(p)
    \/ \E p \in Users : CompleteNotified(p)
    \/ \E p \in Users : RollbackLoaded(p)
    \/ \E p \in Users : RollbackSaved(p)
    \/ \E p \in Users : ErrorRolled(p)
    \/ \E p \in Users : ErrorNotified(p)

SpecTaps == InitDelivery /\ [][NextTaps]_vars

\* ------------------------------------------------------------------------
\* SpecLong: one tap on a long playlist that holds a local file; the memory
\* of the playlist can be reset at any time
\* ------------------------------------------------------------------------

LongList == [i \in 1 .. LongN |-> i]

InitLong ==
    /\ catalog = [pid \in Playlists |-> LongList]
    /\ InitEngine
    /\ qstate = NoState
    /\ qloc = [p \in Procs |-> InitQLoc]
    /\ deviceQueue = <<>>
    /\ notification = "none"
    /\ faults = MaxFaults - 2
    /\ calls = MaxTaps - 1
    /\ now = 0
    /\ recent = <<>>

LongTap ==
    /\ calls < MaxTaps
    /\ calls' = calls + 1
    /\ UNCHANGED <<now, recent>>
    /\ handlePlaylistSelect(1)

LongShuffle ==
    \E pid \in Playlists :
        getSmartShuffledTracks(1, pid, "selected", "shuffled") /\ UNCHANGED <<qVars, calls, now, recent>>

NextLong ==
    \/ LongTap
    \/ LongShuffle
    \/ \* the memory is reset from the settings, once
       \E pid \in Playlists :
           /\ loc[2].op = "none"
           /\ resetPlaylistMemory(2, pid)
           /\ UNCHANGED <<qVars, calls, now, recent>>
    \/ ActiveChecked(1)
    \/ ShuffleLoaded(1)
    \/ ShuffleSavedFresh(1)
    \/ queueShuffleMutation(1)
    \/ QueueStart(1)
    \/ StartSaved(1)
    \/ HealthAnswered(1)
    \/ EnqueueAnswered(1)
    \/ QueueSaved(1)
    \/ MarkLoaded(1)
    \/ MarkSaved(1)
    \/ CompleteMarked(1)
    \/ CompleteNotified(1)
    \/ RollbackLoaded(1)
    \/ ErrorRolled(1)
    \/ ErrorNotified(1)

SpecLong == InitLong /\ [][NextLong]_vars

\* ------------------------------------------------------------------------
\* A long delivery and a stop: caller 1 taps the long playlist once, caller 2
\* stops the queue once; the player answers every request with success.
\* ------------------------------------------------------------------------

InitStop ==
    /\ catalog = [pid \in Playlists |-> LongList]
    /\ InitEngine
    /\ qstate = NoState
    /\ qloc = [p \in Procs |-> InitQLoc]
    /\ deviceQueue = <<>>
    /\ notification = "none"
    /\ faults = MaxFaults
    /\ calls = MaxTaps - 1
    /\ now = 0
    /\ recent = <<>>

StopTap ==
    /\ calls < MaxTaps
    /\ calls' = calls + 1
    /\ UNCHANGED <<now, recent>>
    /\ handlePlaylistSelect(1)

StopShuffle ==
    \E pid \in Playlists :
        getSmartShuffledTracks(1, pid, "selected", "shuffled") /\ UNCHANGED <<qVars, calls, now, recent>>

StopOnce ==
    /\ qloc[2].stopCursor = -1
    /\ stopBackgroundQueue(2)
    /\ UNCHANGED <<calls, now, recent>>

NextStop ==
    \/ StopTap
    \/ StopShuffle
    \/ StopOnce
    \/ StopLoaded(2)
    \/ ActiveChecked(1)
    \/ ShuffleLoaded(1)
    \/ ShuffleSavedFresh(1)
    \/ queueShuffleMutation(1)
    \/ QueueStart(1)
    \/ StartSaved(1)
    \/ HealthAnswered(1)
    \/ EnqueueAnswered(1)
    \/ QueueSaved(1)
    \/ MarkLoaded(1)
    \/ MarkSaved(1)
    \/ CompleteMarked(1)
    \/ CompleteNotified(1)

SpecStop == InitStop /\ [][NextStop]_vars

\* ------------------------------------------------------------------------
\* Taps while time passes: the callers tap the playlist, and between any two
\* steps the clock may advance (a delivery can be suspended for long).
\* ------------------------------------------------------------------------

\* the clock advances in steps of this many minutes
TickMinutes == 15

\* the clock stops here
MaxTime == 60

InitStale ==
    /\ catalog = [pid \in Playlists |-> <<1, 2>>]
    /\ InitEngine
    /\ qstate = NoState
    /\ qloc = [p \in Procs |-> InitQLoc]
    /\ deviceQueue = <<>>
    /\ notification = "none"
    /\ faults = MaxFaults
    /\ calls = 0
    /\ now = 0
    /\ recent = <<>>

Tick ==
    /\ now + TickMinutes <= MaxTime
    /\ now' = now + TickMinutes
    /\ UNCHANGED recent
    /\ UNCHANGED <<engineVars, qVars, calls>>

StaleTap ==
    \E p \in Users :
        /\ calls < MaxTaps
        /\ calls' = calls + 1
        /\ UNCHANGED <<now, recent>>
        /\ handlePlaylistSelect(p)

StaleShuffle ==
    \E p \in Users : \E pid \in Playlists :
        getSmartShuffledTracks(p, pid, "selected", "shuffled") /\ UNCHANGED <<qVars, calls, now, recent>>

NextStale ==
    \/ Tick
    \/ StaleTap
    \/ StaleShuffle
    \/ \E p \in Users : ActiveChecked(p)
    \/ \E p \in Users : ShuffleResume(p)
    \/ \E p \in Users : ShuffleLoaded(p)
    \/ \E p \in Users : ShuffleSavedFresh(p)
    \/ \E p \in Users : ShuffleSavedRollover(p)
    \/ \E p \in Users : ShuffleRecursed(p)
    \/ \E p \in Users : queueShuffleMutation(p)
    \/ \E p \in Users : QueueStart(p)
    \/ \E p \in Users : StartSaved(p)
    \/ \E p \in Users : EnqueueAnswered(p)
    \/ \E p \in Users : QueueSaved(p)
    \/ \E p \in Users : MarkLoaded(p)
    \/ \E p \in Users : MarkSaved(p)
    \/ \E p \in Users : CompleteMarked(p)
    \/ \E p \in Users : CompleteNotified(p)

SpecStale == InitStale /\ [][NextStale]_vars

\* ------------------------------------------------------------------------
\* First batches: one call of getSmartShuffledTracks for a playlist without
\* memory, the playlist having one of the sizes around the limits of
\* calculateOptimalSetSize.
\* ------------------------------------------------------------------------

\* how far above the sizes of the table the playlists go
SizeSpread == 3

SizeLists ==
    {[i \in 1 .. n + d |-> i] : n \in {150, 151, 500, 1501, 2000}, d \in 0 .. SizeSpread}

InitSize ==
    /\ catalog \in [Playlists -> SizeLists]
    /\ InitEngine
    /\ InitQ

SizeShuffle ==
    \E pid \in Playlists :
        /\ loc[1].op = "none"
        /\ getSmartShuffledTracks(1, pid, "idle", "idle")
        /\ UNCHANGED <<qVars, calls, now, recent>>

NextSize ==
    \/ SizeShuffle
    \/ ShuffleLoaded(1)
    \/ ShuffleSavedFresh(1)

SpecSize == InitSize /\ [][NextSize]_vars

\* ------------------------------------------------------------------------
\* SpecThreshold: one tap on a playlist without memory whose third track
\* is a local file; the sizes put the share of invalid references of the
\* batch above, at and below the limit, and make the reference list empty.
\* The player answers every request with success; the memory of the playlist
\* can be reset at any time.
\* ------------------------------------------------------------------------

ThresholdLists == {[i \in 1 .. n |-> i] : n \in {1, 2, 4, 10, 11, 12}}

InitThreshold ==
    /\ catalog \in [Playlists -> ThresholdLists]
    /\ InitEngine
    /\ qstate = NoState
    /\ qloc = [p \in Procs |-> InitQLoc]
    /\ deviceQueue = <<>>
    /\ notification = "none"
    /\ faults = MaxFaults
    /\ calls = MaxTaps - 1
    /\ now = 0
    /\ recent = <<>>

NextThreshold ==
    \/ \* the tap
       /\ calls < MaxTaps
       /\ calls' = calls + 1
       /\ UNCHANGED <<now, recent>>
       /\ handlePlaylistSelect(1)
    \/ \* the mutation calls getSmartShuffledTracks
       \E pid \in Playlists :
           getSmartShuffledTracks(1, pid, "selected", "shuffled") /\ UNCHANGED <<qVars, calls, now, recent>>
    \/ \* the memory is reset from the settings
       \E pid \in Playlists :
           resetPlaylistMemory(2, pid) /\ UNCHANGED <<qVars, calls, now, recent>>
    \/ ActiveChecked(1)
    \/ ShuffleLoaded(1)
    \/ ShuffleSavedFresh(1)
    \/ queueShuffleMutation(1)
    \/ QueueStart(1)
    \/ StartSaved(1)
    \/ StartCatch(1)
    \/ ErrorNotified(1)
    \/ EnqueueAnswered(1)
    \/ QueueSaved(1)
    \/ MarkLoaded(1)
    \/ MarkSaved(1)
    \/ CompleteMarked(1)
    \/ CompleteNotified(1)

SpecThreshold == InitThreshold /\ [][NextThreshold]_vars

\* ------------------------------------------------------------------------
\* SpecResume: one tap starts a delivery; the background task is triggered
\* while the loop runs or after the process died, and works from the stored
\* record
\* ------------------------------------------------------------------------

\* the task callback (61-73) up to the await of loadQueueState, with or
\* without an error of the task manager
TaskTriggered(p) ==
    /\ pc[p] = "idle"
    /\ calls < MaxTaps
    /\ calls' = calls + 1
    /\ \E error \in BOOLEAN :
          /\ error => faults < MaxFaults
          /\ faults' = IF error THEN faults + 1 ELSE faults
          /\ pc' = [pc EXCEPT ![p] = IF error THEN "taskError" ELSE "taskLoaded"]
    /\ qloc' = [qloc EXCEPT ![p] = [InitQLoc EXCEPT !.loaded = qstate, !.willReturn = "none"]]
    /\ UNCHANGED <<catalog, mem, shuffleLocks, loc, seen, committed,
                   qstate, deviceQueue, notification, now, recent>>

\* loadQueueState answered in the task callback: handleTaskError (65-66),
\* or nothing without an active record (75-78), or processQueue(state) (81)
\* from the currentIndex of the loaded record (148-154)
TaskLoaded(p) ==
    /\ \/ /\ pc[p] = "taskError"
          /\ handleTaskError(p, qloc[p].loaded, "taskError", qloc[p])
       \/ /\ pc[p] = "taskLoaded"
          /\ LET state == qloc[p].loaded IN
             IF ~isQueueActive(state)
             THEN /\ pc' = [pc EXCEPT ![p] = "idle"]
                  /\ UNCHANGED <<catalog, mem, shuffleLocks, loc, seen, committed,
                                 qstate, qloc, deviceQueue, notification>>
             ELSE /\ LoopHead(p, "taskLoaded",
                        [qloc[p] EXCEPT !.state = state, !.i = state.currentIndex,
                                        !.lastUpdateIndex = state.currentIndex,
                                        !.outcome = "Running"])
                  /\ UNCHANGED notification
    /\ UNCHANGED <<faults, calls, now, recent>>

\* the process dies while a loop is at its enqueue request (170) or at its
\* save (174): every invocation and the lock map are gone, the storage and
\* the device stay, and a request that was on its way reaches the device or
\* not
Died ==
    /\ faults < MaxFaults
    /\ faults' = faults + 1
    /\ \E p \in {1, 2} : pc[p] \in {"enqueue", "saved"}
    /\ \E a \in (IF pc[1] = "enqueue"
                 THEN {<<>>, <<qloc[1].state.tracks[qloc[1].i + 1]>>} ELSE {<<>>}),
          b \in (IF pc[2] = "enqueue"
                 THEN {<<>>, <<qloc[2].state.tracks[qloc[2].i + 1]>>} ELSE {<<>>}) :
          deviceQueue' = deviceQueue \o a \o b
    /\ pc' = [p \in Procs |-> "idle"]
    /\ loc' = [p \in Procs |-> InitLoc]
    /\ qloc' = [p \in Procs |-> InitQLoc]
    /\ shuffleLocks' = [pid \in Playlists |-> 0]
    /\ UNCHANGED <<catalog, mem, seen, committed, qstate, notification, calls, now, recent>>

NextResume ==
    \/ \* the one tap
       /\ calls = 0
       /\ calls' = calls + 1
       /\ UNCHANGED <<now, recent>>
       /\ handlePlaylistSelect(1)
    \/ ActiveChecked(1)
    \/ \E pid \in Playlists :
          getSmartShuffledTracks(1, pid, "selected", "shuffled") /\ UNCHANGED <<qVars, calls, now, recent>>
    \/ ShuffleLoaded(1)
    \/ ShuffleSavedFresh(1)
    \/ queueShuffleMutation(1)
    \/ QueueStart(1)
    \/ StartSaved(1)
    \/ TaskTriggered(2)
    \/ TaskLoaded(2)
    \/ Died
    \/ \E p \in {1, 2} :
          \/ EnqueueAnswered(p)
          \/ QueueSaved(p)
          \/ MarkLoaded(p)
          \/ MarkSaved(p)
          \/ CompleteMarked(p)
          \/ CompleteNotified(p)
          \/ RollbackLoaded(p)
          \/ ErrorRolled(p)
          \/ ErrorNotified(p)

SpecResume == InitDelivery /\ [][NextResume]_vars

\* ------------------------------------------------------------------------
\* SpecHash: generatePlaylistHash applied to a track list and to the list
\* after one edit of it
\* ------------------------------------------------------------------------

\* edited lists grow up to this length
MaxHashLen == 3

\* the ids the lists are made of
HashIds == {1, 2, 3, 22236, 30439}

\* what is kept of one application: the list before, and both fingerprints
Hashed(op, before, after) ==
    [InitLoc EXCEPT !.op = op, !.allTracks = before,
                    !.result = [before |-> generatePlaylistHash(before),
                                after  |-> generatePlaylistHash(after)]]

NextHash ==
    LET l == catalog["P"] IN
    /\ \/ \* an element is appended
          \E id \in HashIds :
             /\ Len(l) < MaxHashLen
             /\ catalog' = [catalog EXCEPT !["P"] = Append(l, id)]
             /\ loc' = [loc EXCEPT ![1] = Hashed("append", l, Append(l, id))]
       \/ \* an element is removed
          \E i \in 1 .. Len(l) :
             LET after == SubSeq(l, 1, i - 1) \o SubSeq(l, i + 1, Len(l)) IN
             /\ catalog' = [catalog EXCEPT !["P"] = after]
             /\ loc' = [loc EXCEPT ![1] = Hashed("remove", l, after)]
       \/ \* two elements with different ids are swapped
          \E i, j \in 1 .. Len(l) :
             LET after == [l EXCEPT ![i] = l[j], ![j] = l[i]] IN
             /\ l[i] # l[j]
             /\ catalog' = [catalog EXCEPT !["P"] = after]
             /\ loc' = [loc EXCEPT ![1] = Hashed("swap", l, after)]
       \/ \* the same list is fingerprinted again
          /\ loc[1].op # "again"
          /\ loc' = [loc EXCEPT ![1] = Hashed("again", l, l)]
          /\ UNCHANGED catalog
    /\ UNCHANGED <<mem, shuffleLocks, pc, seen, committed, qVars, calls, now, recent>>

InitHash ==
    /\ catalog \in [Playlists -> UNION {[1 .. n -> HashIds] : n \in 0 .. MaxHashLen}]
    /\ InitEngine
    /\ InitQ

SpecHash == InitHash /\ [][NextHash]_vars

\* ------------------------------------------------------------------------
\* SpecWrite: one caller asks for batch after batch and commits each, and
\* the write of a new cycle's record can fail: saveShuffleMemory logs the
\* error and returns (253-260)
\* ------------------------------------------------------------------------

NextWrite ==
    \/ CycleShuffle
    \/ ShuffleLoaded(1)
    \/ \* step 5 (379-388) with a setItem that throws: the new record is in
       \* the local variable only (the innermost frame the model allows
       \* always writes)
       /\ pc[1] = "loaded"
       /\ faults < MaxFaults
       /\ faults' = faults + 1
       /\ LET m      == loc[1].memory
              tracks == loc[1].allTracks
          IN  /\ m.exists
              /\ m.playlistHash = generatePlaylistHash(tracks)
              /\ pruneOrphans(m.playedTrackIds, tracks) = m.playedTrackIds
              /\ unplayedTracks(tracks, m.playedTrackIds) = <<>>
              /\ loc[1].depth < MaxDepth - 1
              /\ loc' = [loc EXCEPT ![1].memory = createFreshMemory(tracks, m.cycleNumber + 1),
                                    ![1].rolled = TRUE]
              /\ pc' = [pc EXCEPT ![1] = "savedRollover"]
       /\ UNCHANGED <<catalog, mem, shuffleLocks, seen, committed,
                      qstate, qloc, deviceQueue, notification, calls, now, recent>>
    \/ ShuffleSavedFresh(1)
    \/ ShuffleSavedRollover(1)
    \/ ShuffleRecursed(1)
    \/ CycleCommit
    \/ MarkLoaded(1)
    \/ MarkSaved(1)

SpecWrite == Init /\ [][NextWrite]_vars

\* ------------------------------------------------------------------------
\* SpecStats: two playlists are used by one caller, one call after the
\* other, and the profile tab asks for the global statistics
\* ------------------------------------------------------------------------

StatsPlaylists == {"P", "Q"}

InitStats ==
    /\ catalog = [pid \in StatsPlaylists |-> IF pid = "P" THEN <<1, 2>> ELSE <<1, 1, 2>>]
    /\ mem = [pid \in StatsPlaylists |-> NoMem]
    /\ shuffleLocks = [pid \in StatsPlaylists |-> 0]
    /\ pc = [p \in Procs |-> "idle"]
    /\ loc = [p \in Procs |-> InitLoc]
    /\ seen = [pid \in StatsPlaylists |-> {}]
    /\ committed = [pid \in StatsPlaylists |-> {}]
    /\ InitQ

NextStats ==
    \/ \E pid \in StatsPlaylists :
          /\ loc[1].op # "shuffle"
          /\ getSmartShuffledTracks(1, pid, "idle", "idle")
          /\ UNCHANGED <<qVars, calls, now, recent>>
    \/ ShuffleLoaded(1)
    \/ ShuffleSavedFresh(1)
    \/ ShuffleSavedRollover(1)
    \/ ShuffleRecursed(1)
    \/ CycleCommit
    \/ MarkLoaded(1)
    \/ MarkSaved(1)
    \/ \E pid \in StatsPlaylists :
          resetPlaylistMemory(1, pid) /\ UNCHANGED <<qVars, calls, now, recent>>
    \/ \* getGlobalStats: the keys come in any order
       /\ pc[1] = "idle"
       /\ LET stored == {pid \in StatsPlaylists : mem[pid].exists} IN
          \E playlistIds \in [1 .. Cardinality(stored) -> stored] :
             /\ Range(playlistIds) = stored
             /\ loc' = [loc EXCEPT ![1] =
                          [InitLoc EXCEPT !.op = "stats",
                                          !.result = getGlobalStats(playlistIds, mem)]]
       /\ UNCHANGED <<catalog, mem, shuffleLocks, pc, seen, committed, qVars, calls, now, recent>>

SpecStats == InitStats /\ [][NextStats]_vars

\* ------------------------------------------------------------------------
\* SpecRecent: playlists are added to the recent list, one call after the
\* other; playlist ids are numbers here
\* ------------------------------------------------------------------------

MAX_RECENT_PLAYLISTS == 10

RecentIds == {1, 2, MAX_RECENT_PLAYLISTS, MAX_RECENT_PLAYLISTS + 1, MAX_RECENT_PLAYLISTS + 2}

\* lists that earlier calls have stored
RecentStored ==
    { <<>>,
      [i \in 1 .. MAX_RECENT_PLAYLISTS - 1 |-> i],
      [i \in 1 .. MAX_RECENT_PLAYLISTS |-> i] }

InitRecent ==
    /\ catalog \in [Playlists -> {<<>>}]
    /\ InitEngine
    /\ qstate = NoState
    /\ qloc = [p \in Procs |-> InitQLoc]
    /\ deviceQueue = <<>>
    /\ notification = "none"
    /\ faults = 0
    /\ calls = 0
    /\ now = 0
    /\ recent \in RecentStored

\* the same without the filter of line 16
addRecentPlaylistUnfiltered(playlistId) ==
    /\ calls < MaxCalls
    /\ calls' = calls + 1
    /\ LET list    == recent
           updated == SubSeq(<<playlistId>> \o list, 1,
                             Min(Len(list) + 1, MAX_RECENT_PLAYLISTS))
       IN  /\ recent' = updated
           /\ loc' = [loc EXCEPT ![1] =
                        [InitLoc EXCEPT !.op = "recent",
                                        !.result = [playlistId |-> playlistId, list |-> list]]]
    /\ UNCHANGED <<catalog, mem, shuffleLocks, pc, seen, committed, qVars, now>>

\* addRecentPlaylist (recentPlaylists.ts 10-25); the calls are sequential, so
\* nothing happens between its getItem and its setItem
addRecentPlaylist(playlistId) ==
    /\ calls < MaxCalls
    /\ calls' = calls + 1
    /\ LET list     == recent
           filtered == FilterOut(list, {playlistId})
           updated  == SubSeq(<<playlistId>> \o filtered, 1,
                              Min(Len(filtered) + 1, MAX_RECENT_PLAYLISTS))
       IN  /\ recent' = updated
           /\ loc' = [loc EXCEPT ![1] =
                        [InitLoc EXCEPT !.op = "recent",
                                        !.result = [playlistId |-> playlistId, list |-> list]]]
    /\ UNCHANGED <<catalog, mem, shuffleLocks, pc, seen, committed, qVars, now>>

NextRecent == \E playlistId \in RecentIds : addRecentPlaylist(playlistId)

SpecRecent == InitRecent /\ [][NextRecent]_vars

\* ------------------------------------------------------------------------
\* Properties of the shuffle memory
\* ------------------------------------------------------------------------

\* caller p is inside getSmartShuffledTracks, its memory load issued
InShuffle(p) ==
    pc[p] \in {"loaded", "savedFresh", "savedChanged", "savedPruned",
               "savedRollover", "recursed"}

\* caller p has returned from getSmartShuffledTracks and made no call since
Shuffled(p) == pc[p] = "idle" /\ loc[p].op = "shuffle"

\* this step is the return of a batch to caller p
ReturnsBatch(p) == InShuffle(p) /\ pc'[p] = "idle"

\* C1: with every batch committed before the next request and the playlist
\* unchanged, a batch holds no id twice and no id that was already returned
\* since the playlist was last covered completely
C1_ExactlyOncePerCycle ==
    [][ReturnsBatch(1) =>
          LET pid   == loc[1].playlistId
              batch == loc'[1].result.tracks
          IN  /\ Distinct(batch)
              /\ seen[pid] # TrackIds(loc[1].allTracks)
                    => Range(batch) \cap seen[pid] = {}]_vars

\* a cycle of the large playlist was covered by three batches
C1_Witness ==
    /\ Shuffled(1)
    /\ Len(loc[1].allTracks) = BigN
    /\ Len(loc[1].result.tracks) < calculateOptimalSetSize(BigN)
    /\ seen["P"] = TrackIds(loc[1].allTracks)

\* the stored played set held every live id when the call was made
PreFull(p) ==
    /\ loc[p].pre.exists
    /\ TrackIds(loc[p].allTracks) \subseteq Range(loc[p].pre.playedTrackIds)

\* the call of p started a new cycle and returned its first batch
RolledOver(p) ==
    LET m == mem[loc[p].playlistId] IN
    /\ m.exists
    /\ m.playedTrackIds = <<>>
    /\ m.cycleNumber = loc[p].pre.cycleNumber + 1
    /\ loc[p].result.tracks # <<>>
    /\ Range(loc[p].result.tracks) \subseteq TrackIds(loc[p].allTracks)
    /\ loc[p].result.stats.cycleComplete

\* C2 as stated: a call (with a non-empty live list) that finds every live
\* id played starts a new cycle (played set emptied, cycleNumber + 1,
\* non-empty batch, cycleComplete), and a call without rollover reports
\* cycleComplete = false
C2_Original ==
    Shuffled(1) =>
        /\ (PreFull(1) /\ loc[1].allTracks # <<>>) => RolledOver(1)
        /\ ~loc[1].rolled => ~loc[1].result.stats.cycleComplete

\* C2 amended: the same for a non-empty live list whose fingerprint equals
\* the stored one
C2_Rollover ==
    Shuffled(1) =>
        /\ ( /\ PreFull(1)
             /\ loc[1].allTracks # <<>>
             /\ loc[1].pre.playlistHash = generatePlaylistHash(loc[1].allTracks) )
              => RolledOver(1)
        /\ ~loc[1].rolled => ~loc[1].result.stats.cycleComplete

\* a call found everything played, with the fingerprint unchanged, and returned
C2_Witness ==
    /\ Shuffled(1)
    /\ PreFull(1)
    /\ loc[1].allTracks # <<>>
    /\ loc[1].pre.playlistHash = generatePlaylistHash(loc[1].allTracks)
    /\ loc[1].pre.cycleNumber = 1

\* C3: no step of getSmartShuffledTracks adds an id to a stored played set,
\* and when it has returned none of the returned tracks is stored as played
C3_DeferredCommit ==
    /\ [](Shuffled(1) =>
            Range(loc[1].result.tracks) \cap PlayedIds(mem[loc[1].playlistId]) = {})
    /\ [][(InShuffle(1) \/ loc'[1].op = "shuffle") =>
            \A pid \in Playlists : PlayedIds(mem'[pid]) \subseteq PlayedIds(mem[pid])]_vars

\* a batch was returned while other tracks are stored as played
C3_Witness ==
    /\ Shuffled(1)
    /\ loc[1].result.tracks # <<>>
    /\ PlayedIds(mem[loc[1].playlistId]) # {}

\* C4: at most one invocation per playlist is between its memory load and
\* its return
C4_MutualExclusion ==
    \A p, q \in Procs :
        (p # q /\ InShuffle(p) /\ InShuffle(q)) => loc[p].playlistId # loc[q].playlistId

AllIdle == \A p \in Procs : pc[p] = "idle"

\* C5: once no mutation is running, the ids of every commit that returned
\* true (and that no rollback, reset, playlist change or rollover took out
\* since) are in the stored played set
C5_NoLostUpdate ==
    AllIdle => \A pid \in Playlists : committed[pid] \subseteq PlayedIds(mem[pid])

\* ------------------------------------------------------------------------
\* Properties of the delivery
\* ------------------------------------------------------------------------

\* this step is caller p's call of startBackgroundQueue
StartCall(p) == pc[p] = "played" /\ pc'[p] # "played"

\* C6: a start issued while an active record is stored returns failure and
\* changes nothing: the record and the device queue stay as they were and no
\* delivery loop begins
C6_SingleInFlight ==
    [][\A p \in Users :
          (StartCall(p) /\ isQueueActive(qstate)) =>
              /\ qstate' = qstate
              /\ deviceQueue' = deviceQueue
              /\ pc'[p] # "startSaved"
              /\ qloc'[p].willReturn = "false"]_vars

\* every reference handed to start (the batch without its first track) is valid
AllValid(tracks) ==
    \A k \in 2 .. Len(tracks) : isValidSpotifyTrackUri(uriOf(tracks[k]))

\* C7: a start with valid references, issued while no active record is
\* stored (the earlier delivery completed, failed or was stopped), stores a
\* new active record with currentIndex = 0 for the references, and returns
\* success
C7_StartAccepted ==
    /\ [][(StartCall(1) /\ ~isQueueActive(qstate) /\ AllValid(qloc[1].tracks)) =>
             /\ qstate'.exists
             /\ qstate'.isActive
             /\ qstate'.currentIndex = 0
             /\ qstate'.tracks = UrisOf(Tail(qloc[1].tracks))
             /\ pc'[1] = "startSaved"]_vars
    /\ []((pc[1] = "idle" /\ qloc[1].validRefs
              /\ qloc[1].prior # "active" /\ qloc[1].ret # "none")
            => qloc[1].ret = "true")

\* a start was accepted over the record of a stopped delivery and returned
C7_Witness ==
    /\ pc[1] = "idle"
    /\ qloc[1].prior = "stopped"
    /\ AllValid(qloc[1].tracks)
    /\ qloc[1].state.exists
    /\ qloc[1].ret = "true"

\* the ids the delivery of p may commit: the first track and the tracks
\* whose enqueue succeeded
Confirmed(p) ==
    {trackIdOf(qloc[p].state.firstTrackUri)}
        \cup {trackIdOf(qloc[p].state.tracks[k + 1]) : k \in qloc[p].delivered}

\* C8: the commit of a completed delivery adds to the played set only the
\* first track and tracks whose enqueue succeeded, and a failed delivery
\* adds nothing to it
C8_NoFabricatedHistory ==
    [][\A pid \in Playlists :
          /\ (pc[1] = "markLoaded" /\ loc[1].cont = "completeMarked")
                => (PlayedIds(mem'[pid]) \ PlayedIds(mem[pid])) \subseteq Confirmed(1)
          /\ pc[1] \in {"rollbackLoaded", "rollbackSaved", "errorRolled", "errorNotified"}
                => PlayedIds(mem'[pid]) \subseteq PlayedIds(mem[pid])]_vars

\* C9: the cursor of the delivery's record goes only from i to i + 1, then
\* with track i delivered; every track below the cursor was delivered; and
\* the delivery completes only with the cursor at the length of the list
C9_IndexDiscipline ==
    /\ [][(qloc[1].state.exists /\ qloc'[1].state.exists
              /\ qloc'[1].state.currentIndex # qloc[1].state.currentIndex)
            => /\ qloc'[1].state.currentIndex = qloc[1].state.currentIndex + 1
               /\ qloc[1].state.currentIndex \in qloc'[1].delivered]_vars
    /\ [](qloc[1].state.exists =>
            \A k \in 0 .. qloc[1].state.currentIndex - 1 : k \in qloc[1].delivered)
    /\ [](qloc[1].outcome = "Completed" =>
            qloc[1].state.currentIndex = Len(qloc[1].state.tracks))

\* C10: once a track was rate limited on the first attempt and on all
\* retries, the delivery is on its way to Failed: it handles the error and
\* neither goes on with the next track nor completes
C10_RateLimitFatal ==
    qloc[1].exhausted =>
        /\ pc[1] \in {"rollbackLoaded", "rollbackSaved", "errorRolled",
                    "errorNotified", "idle"}
        /\ qloc[1].outcome = "Failed" \/ pc[1] # "idle"

\* C11: once an enqueue was answered with an error that is no rate limit,
\* the delivery is on its way to Failed: the track is not asked for again,
\* no later track is delivered, and the delivery does not complete
C11_OtherErrorFatal ==
    qloc[1].otherError =>
        /\ pc[1] \in {"rollbackLoaded", "rollbackSaved", "errorRolled",
                    "errorNotified", "idle"}
        /\ qloc[1].outcome = "Failed" \/ pc[1] # "idle"

\* the stop of caller 2 made the record inactive while the loop of caller 1
\* had not reached its checkpoint, and the loop is now at or past it
StoppedBeforeCheckpoint ==
    /\ qloc[2].stopCursor \in 0 .. HealthCheckEvery - 1
    /\ qloc[1].i >= HealthCheckEvery
    /\ qloc[1].outcome # "none"

\* C12: a loop stopped before its checkpoint delivers no track from the
\* checkpoint on, and makes no commit, no rollback and no completion or
\* error notification
C12_CooperativeStop ==
    StoppedBeforeCheckpoint =>
        /\ \A k \in qloc[1].delivered : k < HealthCheckEvery
        /\ pc[1] \notin {"markLoaded", "markSaved", "completeMarked", "completeNotified",
                         "rollbackLoaded", "rollbackSaved", "errorRolled", "errorNotified"}
        /\ qloc[1].outcome = "Running"

\* a record marked active is abandoned when it is older than this many minutes
StaleMinutes == 45

\* this step is the answer of isQueueActive to caller p, who loaded an
\* active record
ActiveAnswered(p) ==
    /\ pc[p] = "activeChecked"
    /\ pc'[p] # "activeChecked"
    /\ isQueueActive(qloc[p].loaded)

\* C13: isQueueActive, finding an active record older than 45 minutes,
\* deletes it and answers false without commit or rollback; finding a
\* younger active record it answers true and leaves the record in place
C13_StalenessReclaimed ==
    [][\A p \in Users :
          ActiveAnswered(p) =>
              IF now - qloc[p].loaded.startedAt > StaleMinutes
              THEN /\ qstate' = NoState
                   /\ pc'[p] = "selected"
                   /\ mem' = mem
              ELSE /\ qstate' = qstate
                   /\ pc'[p] = "idle"
                   /\ qloc'[p].ret = "ignored"]_vars

\* caller p has returned from rollbackUnqueuedTracks and made no call since
RolledBack(p) == pc[p] = "idle" /\ loc[p].op = "rollback"

\* C14: a rollback of the ids that the call before it committed leaves the
\* played set as it was before that commit (ids that were played before it
\* included), and a rollback of ids that are not in the played set returns
\* true and leaves the played set unchanged
C14_CommitRollbackSymmetry ==
    RolledBack(1) =>
        /\ loc[1].before # NoResult
              => PlayedIds(mem[loc[1].playlistId]) = loc[1].before.played
        /\ (loc[1].pre.exists /\ Range(loc[1].trackIds) \cap PlayedIds(loc[1].pre) = {})
              => /\ loc[1].result = [ok |-> TRUE]
                 /\ mem[loc[1].playlistId] = loc[1].pre

\* caller p has returned from markTracksAsPlayed and made no call since
Marked(p) == pc[p] = "idle" /\ loc[p].op = "mark"

\* C15: commit and rollback return false and store nothing when the
\* playlist has no memory, and return true when it has one
C15_MissingMemory ==
    (Marked(1) \/ RolledBack(1)) =>
        IF loc[1].pre.exists
        THEN loc[1].result = [ok |-> TRUE]
        ELSE /\ loc[1].result = [ok |-> FALSE]
             /\ mem[loc[1].playlistId] = NoMem

\* a rollback on an existing memory removed nothing and returned
C15_Witness ==
    /\ RolledBack(1)
    /\ loc[1].pre.exists
    /\ loc[1].pre.playedTrackIds # <<>>
    /\ mem[loc[1].playlistId] = loc[1].pre
    /\ loc[1].result = [ok |-> TRUE]

\* the call of p found a stored memory whose playlistHash differs from the
\* fingerprint of the live list
HashChanged(p) ==
    /\ loc[p].pre.exists
    /\ loc[p].pre.playlistHash # generatePlaylistHash(loc[p].allTracks)

\* what the call of p has stored is the memory of a changed playlist: no
\* played ids, the hash and the count of the live list, the cycle as before
ReplacedKeepingCycle(p) ==
    mem[loc[p].playlistId] =
        [ exists         |-> TRUE,
          playlistHash   |-> generatePlaylistHash(loc[p].allTracks),
          playedTrackIds |-> <<>>,
          cycleNumber    |-> loc[p].pre.cycleNumber,
          totalTracks    |-> Len(loc[p].allTracks) ]

\* with the fingerprint unchanged and no new cycle, the call took nothing
\* but orphans out of the played set
KeptPlayed(p) ==
    (loc[p].pre.exists /\ ~HashChanged(p) /\ ~loc[p].rolled)
        => PlayedIds(mem[loc[p].playlistId])
              = PlayedIds(loc[p].pre) \cap TrackIds(loc[p].allTracks)

\* C16 as stated: a call with a live list (empty or not) whose fingerprint
\* differs from the stored one replaces the memory, keeping cycleNumber; a
\* call with an equal fingerprint does not clear the played set
C16_Original ==
    Shuffled(1) =>
        /\ HashChanged(1) => ReplacedKeepingCycle(1)
        /\ KeptPlayed(1)

\* C16 amended: the same for a non-empty live list
C16_ChangeDetection ==
    Shuffled(1) =>
        /\ (HashChanged(1) /\ loc[1].allTracks # <<>>) => ReplacedKeepingCycle(1)
        /\ KeptPlayed(1)

\* a call in cycle 1 found the playlist changed, with ids played, and returned
C16_Witness ==
    /\ Shuffled(1)
    /\ HashChanged(1)
    /\ loc[1].allTracks # <<>>
    /\ loc[1].pre.cycleNumber = 1
    /\ loc[1].pre.playedTrackIds # <<>>

\* when the call of p has returned, the stored played ids are ids of the
\* live list it was given, and stats.played counts the stored played ids
PrunedToLive(p) ==
    LET m == mem[loc[p].playlistId] IN
    /\ PlayedIds(m) \subseteq TrackIds(loc[p].allTracks)
    /\ loc[p].result.stats.played =
          (IF m.exists THEN Len(pruneOrphans(m.playedTrackIds, loc[p].allTracks)) ELSE 0)

\* C17 as stated: after a call with any live list, empty or not
C17_Original == Shuffled(1) => PrunedToLive(1)

\* C17 amended: after a call with a non-empty live list
C17_OrphanPruning == (Shuffled(1) /\ loc[1].allTracks # <<>>) => PrunedToLive(1)

\* a call found played ids that are not in the live list, the fingerprint
\* being the stored one, and returned
C17_Witness ==
    /\ Shuffled(1)
    /\ loc[1].allTracks # <<>>
    /\ ~HashChanged(1)
    /\ PlayedIds(loc[1].pre) \ TrackIds(loc[1].allTracks) # {}
    /\ PlayedIds(loc[1].pre) \cap TrackIds(loc[1].allTracks) # {}

\* C18: between the calls of the engine, getPlaylistProgress asked with the
\* playlist's track count never answers played = that count (remaining = 0)
C18_FullSetNeverObserved ==
    \A pid \in Playlists :
        LET total    == Len(catalog[pid])
            progress == getPlaylistProgress(mem[pid], total)
        IN  (pc[1] = "idle" /\ progress # NoResult)
                => (progress.played # total /\ progress.remaining # 0)

\* C19: while the record of a playlist exists, a step changes its
\* cycleNumber only by +1, and only as the rollover of a call of
\* getSmartShuffledTracks that found every live track played
C19_CycleMonotone ==
    [][\A pid \in Playlists :
          (mem[pid].exists /\ mem'[pid].exists
              /\ mem'[pid].cycleNumber # mem[pid].cycleNumber)
            => /\ mem'[pid].cycleNumber = mem[pid].cycleNumber + 1
               /\ \E p \in Procs :
                     /\ InShuffle(p)
                     /\ loc[p].playlistId = pid
                     /\ pc'[p] = "savedRollover"
                     /\ TrackIds(loc[p].allTracks)
                           \subseteq Range(loc[p].memory.playedTrackIds)]_vars

\* the call of p, made with nothing played, has returned a batch of b
\* tracks for a playlist of n tracks (or the playlist has another size)
FirstBatch(p, n, b) ==
    (Shuffled(p) /\ PlayedIds(loc[p].pre) = {} /\ Len(loc[p].allTracks) = n)
        => Len(loc[p].result.tracks) = b

\* C20 as stated: 150 tracks for a playlist of 150, 75 for 151, 250 for
\* 500, 500 for 1501 and 400 for 2000
C20_Original ==
    /\ FirstBatch(1, 150, 150)
    /\ FirstBatch(1, 151, 75)
    /\ FirstBatch(1, 500, 250)
    /\ FirstBatch(1, 1501, 500)
    /\ FirstBatch(1, 2000, 400)

\* C20 amended: 375 tracks for a playlist of 1501, the other sizes as stated
C20_BatchSizes ==
    /\ FirstBatch(1, 150, 150)
    /\ FirstBatch(1, 151, 75)
    /\ FirstBatch(1, 500, 250)
    /\ FirstBatch(1, 1501, 375)
    /\ FirstBatch(1, 2000, 400)

\* the first batch of a playlist of 1501 tracks was returned
C20_Witness ==
    /\ Shuffled(1)
    /\ PlayedIds(loc[1].pre) = {}
    /\ Len(loc[1].allTracks) = 1501
    /\ Len(loc[1].result.tracks) = 375

C22_StartNonBlocking ==
    [][(qloc[1].validRefs /\ qloc[1].ret = "none" /\ qloc'[1].ret = "true")
          => qloc'[1].outcome = "Running"]_vars

\* C23: a start whose references (the batch without its first track) are
\* invalid for strictly more than 10% fails: no record is created and no
\* track is delivered.  Every other start (exactly 10% and the empty list
\* included) creates the record with exactly the valid references in
\* their order and the cursor 0.
C23_InvalidThreshold ==
    [][LET refs    == UrisOf(Tail(qloc[1].tracks))
           isTrack(u) == u[2] = "track"
           valid   == SelectSeq(refs, isTrack)
           invalid == Len(refs) - Len(valid)
       IN  /\ (pc[1] = "played" /\ pc'[1] # "played") =>
                 IF invalid * 10 > Len(refs)
                 THEN pc'[1] = "startCatch" /\ ~qstate'.exists /\ deviceQueue' = <<>>
                 ELSE /\ pc'[1] = "startSaved"
                      /\ qstate'.exists
                      /\ qstate'.tracks = valid
                      /\ qstate'.currentIndex = 0
           /\ pc[1] = "startCatch" =>
                 /\ pc'[1] = "idle" => qloc'[1].ret = "false"
                 /\ ~qstate'.exists
                 /\ deviceQueue' = <<>>
           /\ (pc[1] = "errorNotified" /\ ~qloc[1].validRefs) =>
                 /\ pc'[1] = "idle" => qloc'[1].ret = "false"
                 /\ ~qstate'.exists
                 /\ deviceQueue' = <<>>]_vars

\* a batch of eleven tracks with one local file among its ten references
\* was accepted
C23_Witness ==
    /\ pc[1] = "startSaved"
    /\ Len(qloc[1].tracks) = 11
    /\ Len(qstate.tracks) = 9
    /\ qstate.currentIndex = 0

\* C24: a delivery that completes first attempts the commit, then shows
\* the completion notification, then deletes its record, and it does so
\* after a commit that returned true as after one that returned false
C24_CompletionOrder ==
    /\ [][ /\ (pc[1] # "markLoaded" /\ pc'[1] = "markLoaded"
                 /\ loc'[1].cont = "completeMarked")
               => /\ qstate'.exists
                  /\ notification' # "complete"
           /\ (pc[1] = "completeMarked" /\ pc'[1] # "completeMarked")
               => /\ loc[1].result \in {[ok |-> TRUE], [ok |-> FALSE]}
                  /\ notification # "complete"
                  /\ notification' = "complete"
                  /\ qstate.exists
                  /\ qstate' = qstate
           /\ (pc[1] = "completeNotified" /\ pc'[1] # "completeNotified")
               => /\ notification = "complete"
                  /\ qstate.exists
                  /\ ~qstate'.exists
                  /\ qloc'[1].outcome = "Completed"]_vars
    /\ []((pc[1] = "idle" /\ qloc[1].outcome = "Completed")
            => notification = "complete" /\ ~qstate.exists)

\* a delivery completed although its commit found no memory and returned
\* false
C24_Witness ==
    /\ pc[1] = "idle"
    /\ qloc[1].outcome = "Completed"
    /\ loc[1].op = "mark"
    /\ loc[1].result = [ok |-> FALSE]
    /\ notification = "complete"
    /\ ~qstate.exists

\* C25: a delivery that fails calls rollback with exactly the ids of the
\* references from the cursor on (no delivered track, not the first track),
\* then shows the error notification, then deletes its record, and it does
\* so after a rollback that returned true as after one that returned false
C25_FailureOrder ==
    /\ [][ /\ (pc[1] \in {"health", "enqueue"}
                 /\ pc'[1] \in {"rollbackLoaded", "errorNotified"})
               => LET state == qloc[1].state
                      rest  == [k \in 1 .. Len(state.tracks) - state.currentIndex |->
                                  state.tracks[state.currentIndex + k][3]]
                  IN  /\ pc'[1] = "rollbackLoaded"
                      /\ loc'[1].op = "rollback"
                      /\ loc'[1].trackIds = rest
                      /\ \A k \in qloc[1].delivered : state.tracks[k + 1][3] \notin Range(rest)
                      /\ state.firstTrackUri[3] \notin Range(rest)
                      /\ notification' = notification
                      /\ qstate' = qstate
           /\ (pc[1] = "errorRolled" /\ pc'[1] # "errorRolled")
               => /\ loc[1].result \in {[ok |-> TRUE], [ok |-> FALSE]}
                  /\ notification' = "error"
                  /\ qstate.exists
                  /\ qstate' = qstate
           /\ (pc[1] = "errorNotified" /\ pc'[1] # "errorNotified")
               => /\ notification = "error"
                  /\ ~qstate'.exists
                  /\ qloc'[1].outcome = "Failed"]_vars
    /\ []((pc[1] = "idle" /\ qloc[1].outcome = "Failed")
            => /\ loc[1].op = "rollback"
               /\ notification = "error"
               /\ ~qstate.exists)

\* a delivery failed after it had delivered tracks, and its rollback found
\* no memory and returned false
C25_Witness ==
    /\ pc[1] = "idle"
    /\ qloc[1].outcome = "Failed"
    /\ qloc[1].delivered # {}
    /\ loc[1].op = "rollback"
    /\ loc[1].result = [ok |-> FALSE]
    /\ ~qstate.exists

\* C26: the rollback of a failed delivery leaves the stored played set of
\* the playlist as it was, also when two batches of the playlist were
\* computed before either was committed
C26_RollbackNoOp ==
    [][\A p \in Users :
          (pc[p] = "rollbackLoaded" /\ loc[p].cont = "errorRolled" /\ pc'[p] # pc[p])
              => PlayedIds(mem'[loc[p].playlistId]) = PlayedIds(mem[loc[p].playlistId])]_vars

\* C27: the outermost frame of a call releases the lock when it returns
\* (the entry is deleted and the callers awaiting its promise resume) and at
\* no other step; the recursive call of a rollover does not wait; once no
\* call is in getSmartShuffledTracks no lock entry is left; and every call
\* of getSmartShuffledTracks returns
C27_LockDiscipline ==
    /\ [][\A p \in Procs :
             /\ (InShuffle(p) /\ pc'[p] = "idle")
                   => /\ loc[p].depth = 0
                      /\ shuffleLocks'[loc[p].playlistId] = 0
                      /\ \A q \in Procs :
                            (pc[q] = "awaitLock" /\ loc[q].waitOn = p) => pc'[q] = "resume"
             /\ (InShuffle(p) /\ pc'[p] # "idle" /\ pc'[p] # pc[p])
                   => shuffleLocks' = shuffleLocks
             /\ (pc[p] = "savedRollover" /\ pc'[p] # pc[p])
                   => pc'[p] = "loaded" /\ loc'[p].depth = loc[p].depth + 1]_vars
    /\ []((\A p \in Procs : ~InShuffle(p) /\ pc[p] \notin {"awaitLock", "resume"})
            => \A pid \in Playlists : shuffleLocks[pid] = 0)
    /\ \A p \in Procs :
          (InShuffle(p) \/ pc[p] \in {"awaitLock", "resume"})
              ~> (pc[p] = "idle" /\ loc[p].result # NoResult)

\* a call that had to await the lock of another call resumed, started a
\* new cycle through the recursive call and returned, and no lock entry is
\* left
C27_Witness ==
    /\ \A p \in Procs : pc[p] = "idle"
    /\ \E p \in Procs :
          /\ loc[p].op = "shuffle"
          /\ loc[p].waitOn # 0
          /\ loc[p].rolled
          /\ loc[p].result.tracks # <<>>
    /\ \A pid \in Playlists : shuffleLocks[pid] = 0

\* C28: once a call for a batch of a non-empty list has returned, the
\* playlist has a stored memory, and only a reset removes a stored memory,
\* so that a commit made with no reset in between finds it and returns
\* true; a memory comes into being only inside getSmartShuffledTracks:
\* commit, rollback and getPlaylistProgress create none
C28_MemoryExists ==
    /\ []((Shuffled(1) /\ loc[1].allTracks # <<>>) => mem[loc[1].playlistId].exists)
    /\ [][\A pid \in Playlists :
             /\ (mem[pid].exists /\ ~mem'[pid].exists) => loc'[1].op = "reset"
             /\ (~mem[pid].exists /\ mem'[pid].exists)
                   => InShuffle(1) /\ loc[1].playlistId = pid]_vars
    /\ []((Marked(1) /\ loc[1].pre.exists) => loc[1].result = [ok |-> TRUE])
    /\ []((pc[1] = "idle" /\ loc[1].op \in {"mark", "rollback", "progress"}
               /\ ~loc[1].pre.exists)
            => ~mem[loc[1].playlistId].exists)

\* a commit found the memory that a call for a batch had created and
\* returned true
C28_Witness ==
    /\ Marked(1)
    /\ loc[1].pre.exists
    /\ loc[1].pre.playedTrackIds = <<>>
    /\ loc[1].result = [ok |-> TRUE]
    /\ mem[loc[1].playlistId].exists

\* C29: the stored played list of a playlist holds no id twice, whatever
\* the calls and their id lists were, and a commit of ids that are all in
\* it leaves the stored memory as it was
C29_PlayedIsSet ==
    /\ \A pid \in Playlists : mem[pid].exists => Distinct(mem[pid].playedTrackIds)
    /\ (Marked(1) /\ loc[1].pre.exists
           /\ Range(loc[1].trackIds) \subseteq PlayedIds(loc[1].pre))
          => mem[loc[1].playlistId] = loc[1].pre

\* C30: in one delivery, with the background task triggered while the loop
\* runs or after the process died, a loop started from the stored record
\* begins at the currentIndex of that record, and no track is enqueued to
\* the device twice
C30_ResumeNoDuplicate ==
    /\ Distinct(deviceQueue)
    /\ \A p \in Procs :
          (pc[p] \in {"enqueue", "saved"} /\ qloc[p].loaded.exists)
              => LET handled == qloc[p].delivered \cup qloc[p].skipped \cup {qloc[p].i}
                 IN  /\ qloc[p].loaded.currentIndex \in handled
                     /\ \A k \in handled : k >= qloc[p].loaded.currentIndex

\* C31: appending an element, removing one, or swapping two elements with
\* different ids changes the fingerprint of a list; the same list has the
\* same fingerprint again; lists of different length have different
\* fingerprints; the empty list has "0_0"
C31_FingerprintSensitive ==
    /\ loc[1].op \in {"append", "remove", "swap"}
          => loc[1].result.after # loc[1].result.before
    /\ loc[1].op = "again" => loc[1].result.after = loc[1].result.before
    /\ (loc[1].op # "none" /\ Len(loc[1].allTracks) # Len(catalog["P"]))
          => loc[1].result.after # loc[1].result.before
    /\ catalog["P"] = <<>> => generatePlaylistHash(catalog["P"]) = <<0, <<0>>>>

\* C32: for one track the enqueue call is made at most 4 times, an attempt
\* after the first follows an answer with a rate-limit signal, the waits
\* before the retries are 1000, 2000 and 4000 ms, and every answer either
\* starts the next retry or ends the work on the track
C32_RetryBound ==
    [][(pc[1] = "enqueue" /\ qloc'[1] # qloc[1])
          => /\ qloc[1].retryCount + 1 <= 4
             /\ qloc[1].waits = SubSeq(<<1000, 2000, 4000>>, 1, qloc[1].retryCount)
             /\ qloc[1].retryCount > 0 => qloc[1].rateLimited
             /\ \/ /\ pc'[1] = "enqueue"
                   /\ qloc'[1].i = qloc[1].i
                   /\ qloc'[1].retryCount = qloc[1].retryCount + 1
                   /\ qloc[1].retryCount < 3
                \/ /\ qloc'[1].retryCount = 0
                   /\ \/ pc'[1] # "enqueue"
                      \/ qloc'[1].i = qloc[1].i + 1]_vars

\* a track was given up after the fourth attempt and the loop went on
C32_Witness ==
    /\ pc[1] = "enqueue"
    /\ qloc[1].exhausted
    /\ qloc[1].skipped # {}
    /\ qloc[1].retryCount = 3

\* C33: the device is probed before the track at every index that is a
\* positive multiple of 25 and at no other index; when the probe is
\* unhealthy the delivery fails with the stored currentIndex equal to that
\* index and no track from that index on delivered
C33_HealthCheckpoint ==
    [][/\ pc'[1] = "health" => (qloc'[1].i > 0 /\ qloc'[1].i % 25 = 0)
       /\ (pc'[1] = "enqueue" /\ pc[1] # "enqueue" /\ qloc'[1].i > 0 /\ qloc'[1].i % 25 = 0)
             => pc[1] = "health"
       /\ (pc[1] = "health" /\ pc'[1] # "health" /\ pc'[1] # "enqueue")
             => /\ pc'[1] \in {"rollbackLoaded", "errorNotified"}
                /\ qstate.exists
                /\ qstate.currentIndex = qloc[1].i
                /\ \A k \in qloc[1].delivered : k < qloc[1].i
                /\ deviceQueue' = deviceQueue]_vars

\* C34: a call of getSmartShuffledTracks with a non-empty list makes at
\* most one recursive call, and the stored cycleNumber is at most one
\* above what it was when the call was made
C34_OneRollover ==
    \A p \in Procs :
        /\ loc[p].depth <= 1
        /\ (loc[p].op = "shuffle" /\ loc[p].allTracks # <<>> /\ loc[p].pre.exists
                /\ mem[loc[p].playlistId].exists)
              => mem[loc[p].playlistId].cycleNumber <= loc[p].pre.cycleNumber + 1

\* C35: a delivery that was started leaves its loop only as Completed or
\* Failed, and once it has, no queue record is stored until the next tap
C35_DeliveryTerminates ==
    /\ (pc[1] = "idle" /\ qloc[1].outcome # "none")
          => qloc[1].outcome \in {"Completed", "Failed"}
    /\ (pc[1] = "idle" /\ qloc[1].outcome \in {"Completed", "Failed"})
          => ~qstate.exists

\* C36: once stop has stored the record as inactive, the stored record is
\* not active again before the next start: the only step that makes it
\* active is the save of a record that startBackgroundQueue created
C36_StopSticks ==
    [][(qstate.exists /\ ~qstate.isActive /\ isQueueActive(qstate'))
          => (pc[1] = "played" /\ pc'[1] = "startSaved")]_vars

\* C37: a start that aborts at the validation of its references, before
\* it stored a record, starts no rollback and leaves the stored queue
\* record as it is
C37_AbortLeavesRecord ==
    [][/\ (pc[1] = "startCatch" /\ pc'[1] # "startCatch")
             => (pc'[1] # "rollbackLoaded" /\ mem' = mem)
       /\ (pc[1] = "errorNotified" /\ ~qloc[1].validRefs /\ pc'[1] = "idle")
             => qstate' = qstate]_vars

\* C38: after a reset the playlist has no stored memory until
\* getSmartShuffledTracks runs for it: no step of a commit or of a rollback
\* stores a record where none is stored
C38_ResetSticks ==
    [][\A pid \in Playlists :
          (~mem[pid].exists /\ mem'[pid].exists)
              => \E p \in Procs : InShuffle(p) /\ loc[p].playlistId = pid]_vars

\* C39: getGlobalStats changes no stored memory; totalHeard is the sum of
\* the sizes of the played sets of the stored records, totalCycles the sum
\* of their cycle numbers, playlistCount their number; mostPlayed is null
\* without records and else names a record with the greatest cycle number
\* and, among those, the greatest played count
C39_GlobalStats ==
    [][loc'[1].op = "stats" =>
          LET stored == {pid \in StatsPlaylists : mem[pid].exists}
              r      == loc'[1].result
              Played(pid) == Cardinality(PlayedIds(mem[pid]))
              RECURSIVE Sum(_, _)
              Sum(f, S) == IF S = {} THEN 0
                           ELSE LET x == CHOOSE y \in S : TRUE IN f[x] + Sum(f, S \ {x})
          IN  /\ mem' = mem
              /\ r.totalHeard = Sum([pid \in stored |-> Played(pid)], stored)
              /\ r.totalCycles = Sum([pid \in stored |-> mem[pid].cycleNumber], stored)
              /\ r.playlistCount = Cardinality(stored)
              /\ stored = {} => r.mostPlayed = NoResult
              /\ stored # {} =>
                    /\ r.mostPlayed.playlistId \in stored
                    /\ r.mostPlayed.cycleNumber = mem[r.mostPlayed.playlistId].cycleNumber
                    /\ r.mostPlayed.played = Played(r.mostPlayed.playlistId)
                    /\ \A pid \in stored :
                          \/ mem[pid].cycleNumber < r.mostPlayed.cycleNumber
                          \/ /\ mem[pid].cycleNumber = r.mostPlayed.cycleNumber
                             /\ Played(pid) <= r.mostPlayed.played]_vars

\* C40: after a call of addRecentPlaylist the stored list has at most 10
\* entries and no id twice, the added id is first, the other entries are
\* entries of the list before the call in their order of before, and an
\* entry of before is missing only if it is the added id or the limit
\* pushed it out, the oldest entries first
C40_RecentList ==
    loc[1].op = "recent" =>
        LET id     == loc[1].result.playlistId
            before == loc[1].result.list
            Pos(x) == CHOOSE i \in 1 .. Len(before) : before[i] = x
            others == Range(before) \ {id}
            kept   == {recent[i] : i \in 2 .. Len(recent)}
        IN  /\ Len(recent) <= MAX_RECENT_PLAYLISTS
            /\ Distinct(recent)
            /\ Len(recent) >= 1
            /\ recent[1] = id
            /\ kept \subseteq others
            /\ \A i, j \in 2 .. Len(recent) : i < j => Pos(recent[i]) < Pos(recent[j])
            /\ \A x \in others \ kept :
                  /\ Len(recent) = MAX_RECENT_PLAYLISTS
                  /\ \A y \in kept : Pos(y) < Pos(x)

\* a new id was added to a full list and the oldest entry is gone
C40_Witness ==
    /\ loc[1].op = "recent"
    /\ Len(loc[1].result.list) = MAX_RECENT_PLAYLISTS
    /\ loc[1].result.playlistId \notin Range(loc[1].result.list)
    /\ Len(recent) = MAX_RECENT_PLAYLISTS
    /\ loc[1].result.list[MAX_RECENT_PLAYLISTS] \notin Range(recent)


====
